---- MODULE Spec2Model ----
(***************************************************************************)
(* Text-editing core of the athena editor: the grapheme-indexed rope       *)
(* (internal/rope), its forward iterator, and the editor facade that owns  *)
(* the buffer map, the current buffer and the mode.                        *)
(*                                                                         *)
(* Text is a sequence of code points; a code point is a one-character      *)
(* string.  A grapheme cluster is a non-empty sequence of code points.     *)
(***************************************************************************)
EXTENDS Integers, Sequences, FiniteSets, TLC

(***************************************************************************)
(* Bounds of the model.                                                    *)
(***************************************************************************)
\* Longest document, in code points, an edit may produce.
MaxLen == 3
\* Longest text, in code points, handed to Insert.
MaxInsertLen == 2
\* Longest replacement text, in code points, handed to Replace.
MaxReplaceLen == 1
\* MaxLeafSize is 256 in rope.go:13; it is scaled down here so that
\* splitIntoLeaves cuts short texts into several leaves.
MaxLeafSize == 2
\* Calls of Next made after the iterator first reported exhaustion.
MaxExtraNext == 2
MaxEdLen == 2
MaxEdInsertLen == 1
MaxEdits == 1
\* Longest document, in code points, a directly used buffer starts with.
MaxBufLen == 2
\* Edits made on a directly used buffer.
MaxBufEdits == 1
\* DefaultChunkSize is 64 KB in chunk.go:13 and MaxLoadedChunks is 50 in
\* chunk.go:14; they are scaled down so that a file of a few bytes has
\* several chunks and loading its last one evicts its first.
ChunkSize == 2
MaxLoadedChunks == 2
\* Longest file, in bytes, a chunk-based buffer is opened on.
MaxFileLen == 5
\* Most line feeds in such a file.
MaxFileNewlines == 2
\* Edits made on a chunk-based buffer.
MaxChunkEdits == 1
\* The rope on the heap: clusters of a document, and mutations per run.
MaxHeapLen == 3
MaxHeapEdits == 2
\* The viewport: scroll padding, cursor lines and view heights.
MaxPadding == 2
MaxLine == 5
MaxHeight == 4
\* Threads: calls that a thread makes.
MaxThreadCalls == 1

\* Code points of the rope model: a letter, a combining mark (Extend) and a
\* regional indicator (two of them in a row form one cluster).
RopeAlphabet == {"a", "m", "r"}

RECURSIVE SeqsUpTo(_, _)
SeqsUpTo(S, n) ==
  IF n = 0 THEN {<< >>}
  ELSE LET shorter == SeqsUpTo(S, n - 1)
       IN  shorter \cup {Append(s, c) : s \in {x \in shorter : Len(x) = n - 1}, c \in S}

Take0(cs, n) == SubSeq(cs, 1, n)

Min2(x, y) == IF x < y THEN x ELSE y
Max2(x, y) == IF x > y THEN x ELSE y

RECURSIVE Flat(_)
\* Concatenation of a sequence of strings (strings.Builder.WriteString in a loop).
Flat(ss) == IF ss = << >> THEN << >> ELSE Head(ss) \o Flat(Tail(ss))

(***************************************************************************)
(* The grapheme segmenter G (uniseg.NewGraphemes): UAX #29 extended        *)
(* grapheme clusters, restricted to the classes the model's code points    *)
(* have: Control (line feed), Extend (combining mark), Regional_Indicator  *)
(* and Other.                                                              *)
(***************************************************************************)
Class(cp) ==
  CASE cp = "\n" -> "Control"
    [] cp = "m"  -> "Extend"
    [] cp = "r"  -> "RI"
    [] OTHER     -> "Other"

RECURSIVE RIRun(_, _)
\* Number of consecutive regional indicators ending at s[i].
RIRun(s, i) ==
  IF i = 0 \/ Class(s[i]) # "RI" THEN 0 ELSE 1 + RIRun(s, i - 1)

\* TRUE iff there is no cluster boundary between s[i] and s[i+1].
NoBreak(s, i) ==
  LET x == Class(s[i])
      y == Class(s[i + 1])
  IN  IF x = "Control" \/ y = "Control" THEN FALSE       \* GB4, GB5
      ELSE IF y = "Extend" THEN TRUE                      \* GB9
      ELSE IF x = "RI" /\ y = "RI" THEN RIRun(s, i) % 2 = 1  \* GB12, GB13
      ELSE FALSE                                          \* GB999

RECURSIVE GraphemesFrom(_, _, _)
\* Clusters of s from code point i on, cur being the cluster under construction.
GraphemesFrom(s, i, cur) ==
  IF i > Len(s) THEN (IF cur = << >> THEN << >> ELSE <<cur>>)
  ELSE IF cur # << >> /\ ~NoBreak(s, i - 1)
       THEN <<cur>> \o GraphemesFrom(s, i + 1, <<s[i]>>)
       ELSE GraphemesFrom(s, i + 1, Append(cur, s[i]))

\* The clusters of s, in order (the sequence gr.Next()/gr.Str() walks).
Graphemes(s) == GraphemesFrom(s, 1, << >>)

countGraphemes(s) == Len(Graphemes(s))

(***************************************************************************)
(* Rope nodes.  A nil pointer, a leaf (left = right = nil) and an internal *)
(* node are told apart by kind.                                            *)
(***************************************************************************)
Nil == [kind |-> "nil"]
LeafNode(d, w) == [kind |-> "leaf", data |-> d, weight |-> w]
InnerNode(l, r, w) == [kind |-> "node", left |-> l, right |-> r, weight |-> w]

IsNil(n) == n.kind = "nil"
IsLeaf(n) == n.kind = "leaf"

RECURSIVE totalGraphemes(_)
totalGraphemes(n) ==
  IF IsNil(n) THEN 0
  ELSE IF IsLeaf(n) THEN n.weight
  ELSE n.weight + totalGraphemes(n.right)

concatenateNodes(left, right) ==
  IF IsNil(left) THEN right
  ELSE IF IsNil(right) THEN left
  ELSE InnerNode(left, right, totalGraphemes(left))

\* SplitLeaf with the loop test `count <= index`: one cluster too many goes left.
SplitLeaf_OffByOne(n, index) ==
  IF index <= 0 THEN <<Nil, n>>
  ELSE IF index >= n.weight THEN <<n, Nil>>
  ELSE LET gr == Graphemes(n.data)
           cut == Min2(index + 1, Len(gr))
       IN  <<LeafNode(Flat(Take0(gr, cut)), index),
             LeafNode(Flat(SubSeq(gr, cut + 1, Len(gr))), n.weight - index)>>

\* SplitLeaf without the tests for index <= 0 and index >= weight: a split at
\* an end of the leaf makes an empty leaf.
SplitLeaf_NoEndTests(n, index) ==
  LET gr    == Graphemes(n.data)
      i     == Max2(0, Min2(index, Len(gr)))
  IN  <<LeafNode(Flat(Take0(gr, i)), index),
        LeafNode(Flat(SubSeq(gr, i + 1, Len(gr))), n.weight - index)>>

\* The leaf case of Split: re-segment the data and cut after `index` clusters.
SplitLeaf(n, index) ==
  IF index <= 0 THEN <<Nil, n>>
  ELSE IF index >= n.weight THEN <<n, Nil>>
  ELSE LET gr == Graphemes(n.data)
           leftData  == Flat([k \in 1..Min2(index, Len(gr)) |-> gr[k]])
           rightData == Flat([k \in 1..(Len(gr) - Min2(index, Len(gr))) |->
                                gr[k + Min2(index, Len(gr))]])
       IN  <<LeafNode(leftData, index), LeafNode(rightData, n.weight - index)>>

RECURSIVE Split(_, _)
Split(n, index) ==
  IF IsNil(n) THEN <<Nil, Nil>>
  ELSE IF IsLeaf(n) THEN SplitLeaf(n, index)
  ELSE IF index < n.weight
       THEN LET l == Split(n.left, index)
            IN  <<l[1], concatenateNodes(l[2], n.right)>>
       ELSE LET r == Split(n.right, index - n.weight)
            IN  <<concatenateNodes(n.left, r[1]), r[2]>>

RECURSIVE writeToString(_)
writeToString(n) ==
  IF IsNil(n) THEN << >>
  ELSE IF IsLeaf(n) THEN n.data
  ELSE writeToString(n.left) \o writeToString(n.right)

\* The leaf case of appendTextRange: the clusters numbered start..end-1.
appendLeafRange(n, start, end) ==
  LET gr == Graphemes(n.data)
  IN  Flat([k \in 1..Max2(0, Min2(end, Len(gr)) - Max2(start, 0)) |->
              gr[k + Max2(start, 0)]])

RECURSIVE appendTextRange(_, _, _)
appendTextRange(n, start, end) ==
  IF IsNil(n) \/ start >= end THEN << >>
  ELSE IF IsLeaf(n) THEN appendLeafRange(n, start, end)
  ELSE (IF start < n.weight
        THEN appendTextRange(n.left, start, Min2(end, n.weight))
        ELSE << >>)
       \o
       (IF end > n.weight
        THEN appendTextRange(n.right, Max2(0, start - n.weight), end - n.weight)
        ELSE << >>)

RECURSIVE graphemeAt(_, _)
graphemeAt(n, index) ==
  IF IsNil(n) THEN [str |-> << >>, err |-> "ErrOutOfBounds"]
  ELSE IF IsLeaf(n)
       THEN LET gr == Graphemes(n.data)
            IN  IF index >= 0 /\ index < Len(gr)
                THEN [str |-> gr[index + 1], err |-> "nil"]
                ELSE [str |-> << >>, err |-> "ErrOutOfBounds"]
  ELSE IF index < n.weight THEN graphemeAt(n.left, index)
  ELSE graphemeAt(n.right, index - n.weight)

RECURSIVE chunkLeaves(_, _)
\* Leaves of at most maxSize clusters each, from a cluster sequence.
chunkLeaves(gr, maxSize) ==
  IF gr = << >> THEN << >>
  ELSE LET k == Min2(maxSize, Len(gr))
       IN  <<LeafNode(Flat(SubSeq(gr, 1, k)), k)>>
           \o chunkLeaves(SubSeq(gr, k + 1, Len(gr)), maxSize)

splitIntoLeaves(s, maxSize) == chunkLeaves(Graphemes(s), maxSize)

RECURSIVE buildBalancedTree(_)
buildBalancedTree(leaves) ==
  IF Len(leaves) = 0 THEN Nil
  ELSE IF Len(leaves) = 1 THEN leaves[1]
  ELSE LET mid   == Len(leaves) \div 2
           left  == buildBalancedTree(SubSeq(leaves, 1, mid))
           right == buildBalancedTree(SubSeq(leaves, mid + 1, Len(leaves)))
       IN  InnerNode(left, right, totalGraphemes(left))

RECURSIVE flatten(_)
flatten(n) ==
  IF IsNil(n) THEN << >>
  ELSE IF IsLeaf(n) THEN <<n>>
  ELSE flatten(n.left) \o flatten(n.right)

rebalance(n) == buildBalancedTree(flatten(n))

NewRope(s) == buildBalancedTree(splitIntoLeaves(s, MaxLeafSize))

(***************************************************************************)
(* The public Rope operations.  A Rope value is its root; an operation     *)
(* returns the new root (or the text read) together with the error.        *)
(***************************************************************************)
Rope_TotalGraphemes(r) == totalGraphemes(r)

Rope_String(r) == writeToString(r)

Rope_Insert(r, index, s) ==
  IF index < 0 \/ index > totalGraphemes(r)
  THEN [root |-> r, err |-> "ErrOutOfBounds"]
  ELSE LET sp         == Split(r, index)
           insertRope == NewRope(s)
           newLeft    == concatenateNodes(sp[1], insertRope)
       IN  [root |-> rebalance(concatenateNodes(newLeft, sp[2])), err |-> "nil"]

\* Rope_Delete without the `start > end` test.
Rope_Delete_NoOrderCheck(r, start, end) ==
  IF start < 0 \/ end > totalGraphemes(r)
  THEN [root |-> r, err |-> "ErrInvalidRange"]
  ELSE LET sp   == Split(r, start)
           sp2  == Split(sp[2], end - start)
       IN  [root |-> rebalance(concatenateNodes(sp[1], sp2[2])), err |-> "nil"]

\* Rope_Delete splitting the right piece at `end` instead of `end - start`.
Rope_Delete_SplitAtEnd(r, start, end) ==
  IF start < 0 \/ end > totalGraphemes(r) \/ start > end
  THEN [root |-> r, err |-> "ErrInvalidRange"]
  ELSE LET sp   == Split(r, start)
           sp2  == Split(sp[2], end)
       IN  [root |-> rebalance(concatenateNodes(sp[1], sp2[2])), err |-> "nil"]

Rope_Delete(r, start, end) ==
  IF start < 0 \/ end > totalGraphemes(r) \/ start > end
  THEN [root |-> r, err |-> "ErrInvalidRange"]
  ELSE LET sp   == Split(r, start)
           sp2  == Split(sp[2], end - start)
       IN  [root |-> rebalance(concatenateNodes(sp[1], sp2[2])), err |-> "nil"]

Rope_Replace(r, start, end, s) ==
  IF start < 0 \/ end > totalGraphemes(r) \/ start > end
  THEN [root |-> r, err |-> "ErrInvalidRange"]
  ELSE LET sp         == Split(r, start)
           sp2        == Split(sp[2], end - start)
           insertRope == NewRope(s)
           newRoot    == concatenateNodes(sp[1], insertRope)
       IN  [root |-> rebalance(concatenateNodes(newRoot, sp2[2])), err |-> "nil"]

Rope_Substring(r, start, end) ==
  IF start < 0 \/ end > totalGraphemes(r) \/ start > end
  THEN [str |-> << >>, err |-> "ErrInvalidRange"]
  ELSE [str |-> appendTextRange(r, start, end), err |-> "nil"]

Rope_GraphemeAt(r, index) ==
  IF index < 0 \/ index >= totalGraphemes(r)
  THEN [str |-> << >>, err |-> "ErrOutOfBounds"]
  ELSE graphemeAt(r, index)

(***************************************************************************)
(* The forward iterator.  graphemes is the per-leaf uniseg walker: nil, or *)
(* the clusters of the leaf and how many of them Next has consumed.        *)
(***************************************************************************)
NoGraphemes == [set |-> FALSE, clusters |-> << >>, idx |-> 0]
NewGraphemes(s) == [set |-> TRUE, clusters |-> Graphemes(s), idx |-> 0]

LeftOf(n) == IF IsNil(n) \/ IsLeaf(n) THEN Nil ELSE n.left
RightOf(n) == IF IsNil(n) \/ IsLeaf(n) THEN Nil ELSE n.right

Rope_NewIterator(r) ==
  [current |-> r, stack |-> << >>, graphemes |-> NoGraphemes, position |-> 0]

RECURSIVE descendLeft(_)
\* for it.current != nil { push it.current; it.current = it.current.left }
descendLeft(i) ==
  IF IsNil(i.current) THEN i
  ELSE descendLeft([i EXCEPT !.stack = Append(@, i.current),
                             !.current = LeftOf(i.current)])

RECURSIVE RopeIterator_Next_KeepWalker(_)
\* Next without `it.graphemes = nil` when a leaf is finished: the next leaf
\* is walked with the finished leaf's walker.
RopeIterator_Next_KeepWalker(i) ==
  LET d == descendLeft(i)
  IN  IF Len(d.stack) = 0
      THEN [it |-> d, str |-> << >>, ok |-> FALSE]
      ELSE LET cur    == d.stack[Len(d.stack)]
               popped == [d EXCEPT !.current = cur,
                                   !.stack = SubSeq(@, 1, Len(@) - 1)]
           IN  IF IsLeaf(cur)
               THEN LET g == IF popped.graphemes.set THEN popped.graphemes
                                                     ELSE NewGraphemes(cur.data)
                    IN  IF g.idx < Len(g.clusters)
                        THEN [it  |-> [popped EXCEPT
                                         !.graphemes = [g EXCEPT !.idx = @ + 1],
                                         !.position  = @ + 1],
                              str |-> g.clusters[g.idx + 1],
                              ok  |-> TRUE]
                        ELSE RopeIterator_Next_KeepWalker(
                               [popped EXCEPT !.graphemes = g,
                                              !.current = RightOf(cur)])
               ELSE RopeIterator_Next_KeepWalker([popped EXCEPT !.current = RightOf(cur)])

RECURSIVE RopeIterator_Next(_)
\* One call of Next: the iterator afterwards, the cluster and the ok flag.
RopeIterator_Next(i) ==
  LET d == descendLeft(i)
  IN  IF Len(d.stack) = 0
      THEN [it |-> d, str |-> << >>, ok |-> FALSE]
      ELSE LET cur    == d.stack[Len(d.stack)]
               popped == [d EXCEPT !.current = cur,
                                   !.stack = SubSeq(@, 1, Len(@) - 1)]
           IN  IF IsLeaf(cur)
               THEN LET g == IF popped.graphemes.set THEN popped.graphemes
                                                     ELSE NewGraphemes(cur.data)
                    IN  IF g.idx < Len(g.clusters)
                        THEN [it  |-> [popped EXCEPT
                                         !.graphemes = [g EXCEPT !.idx = @ + 1],
                                         !.position  = @ + 1],
                              str |-> g.clusters[g.idx + 1],
                              ok  |-> TRUE]
                        ELSE RopeIterator_Next(
                               [popped EXCEPT !.graphemes = NoGraphemes,
                                              !.current = RightOf(cur)])
               ELSE RopeIterator_Next([popped EXCEPT !.current = RightOf(cur)])

(***************************************************************************)
(* The buffer: a rope (document), the selection {Start, End} whose End is  *)
(* the head, the line index (lineCache) and the dirty flag.  The motions   *)
(* are those of buffer/movement.go; the mutators, the line index and the   *)
(* file operations of the rope-based buffer follow sections 4.2 - 4.4 of   *)
(* the specification.                                                      *)
(***************************************************************************)
Clamp(value, min, max) ==
  IF value < min THEN min ELSE IF value > max THEN max ELSE value

Sel(start, end) == [Start |-> start, End |-> end]

RECURSIVE lineStarts(_, _)
\* Positions right after each line-feed cluster, from cluster k on.
lineStarts(cs, k) ==
  IF k > Len(cs) THEN << >>
  ELSE (IF cs[k] = <<"\n">> THEN <<k>> ELSE << >>) \o lineStarts(cs, k + 1)

RECURSIVE iterateAll(_)
\* The clusters a fresh iterator yields until it reports exhaustion.
iterateAll(i) ==
  LET n == RopeIterator_Next(i)
  IN  IF n.ok THEN <<n.str>> \o iterateAll(n.it) ELSE << >>

\* rebuild(rope): walk the iterator once; a line starts at 0 and after every
\* cluster that is a single line feed.
updateLineCache(doc) == <<0>> \o lineStarts(iterateAll(Rope_NewIterator(doc)), 1)

NewBuffer(path, content) ==
  [filePath  |-> path,
   document  |-> NewRope(content),
   selection |-> Sel(0, 0),
   lineCache |-> updateLineCache(NewRope(content)),
   dirty     |-> FALSE]

Buffer_Selection(b) == b.selection

Buffer_CollapseSelectionsToCursor(b) ==
  [b EXCEPT !.selection = Sel(b.selection.End, b.selection.End)]

\* insert(text): delete the selected range if any, insert at S.min, leave a
\* zero-width selection after the inserted text, rebuild L, set dirty.
Buffer_Insert(b, text) ==
  LET lo  == Min2(b.selection.Start, b.selection.End)
      hi  == Max2(b.selection.Start, b.selection.End)
      del == IF lo # hi THEN Rope_Delete(b.document, lo, hi)
                       ELSE [root |-> b.document, err |-> "nil"]
      ins == Rope_Insert(del.root, lo, text)
  IN  IF del.err # "nil" THEN [b |-> b, err |-> del.err]
      ELSE IF ins.err # "nil" THEN [b |-> b, err |-> ins.err]
      ELSE [b |-> [b EXCEPT !.document  = ins.root,
                            !.selection = Sel(lo + countGraphemes(text),
                                              lo + countGraphemes(text)),
                            !.lineCache = updateLineCache(ins.root),
                            !.dirty     = TRUE],
            err |-> "nil"]

\* delete(a, b): R.delete(a, b); a head at or after a is clamped to a;
\* rebuild L.
Buffer_Delete(b, start, end) ==
  LET del == Rope_Delete(b.document, start, end)
  IN  IF del.err # "nil" THEN [b |-> b, err |-> "ErrInvalidRange"]
      ELSE [b |-> [b EXCEPT !.document  = del.root,
                            !.selection = IF b.selection.End >= start
                                          THEN Sel(b.selection.Start, start)
                                          ELSE b.selection,
                            !.lineCache = updateLineCache(del.root),
                            !.dirty     = TRUE],
            err |-> "nil"]

\* delete_selection(): delete [S.min, S.max), collapse S to S.min.
Buffer_DeleteSelection(b) ==
  LET lo  == Min2(b.selection.Start, b.selection.End)
      hi  == Max2(b.selection.Start, b.selection.End)
      del == Rope_Delete(b.document, lo, hi)
  IN  IF del.err # "nil" THEN [b |-> b, err |-> "ErrInvalidRange"]
      ELSE [b |-> [b EXCEPT !.document  = del.root,
                            !.selection = Sel(lo, lo),
                            !.lineCache = updateLineCache(del.root),
                            !.dirty     = TRUE],
            err |-> "nil"]

Buffer_LineCount(b) == Len(b.lineCache)

RECURSIVE lineOf(_, _, _)
\* The largest line i with lines[i] <= pos (lines are numbered from 0).
lineOf(lines, pos, i) ==
  IF i + 1 < Len(lines) /\ lines[i + 2] <= pos THEN lineOf(lines, pos, i + 1) ELSE i

Buffer_PositionToLineCol(b, pos) ==
  IF pos < 0 \/ pos > Rope_TotalGraphemes(b.document)
  THEN [line |-> 0, col |-> 0, err |-> "ErrInvalidPosition"]
  ELSE LET line == lineOf(b.lineCache, pos, 0)
       IN  [line |-> line, col |-> pos - b.lineCache[line + 1], err |-> "nil"]

Buffer_MoveSelections(b, offset, extend) ==
  LET newPos == Clamp(b.selection.End + offset, 0, Rope_TotalGraphemes(b.document))
  IN  [b   |-> [b EXCEPT !.selection = IF extend THEN Sel(b.selection.Start, newPos)
                                                 ELSE Sel(newPos, newPos)],
       err |-> "nil"]

\* MoveSelectionToLineCol with lineEnd taken without the `- 1`: the line feed
\* counts as a column of its line.
Buffer_MoveSelectionToLineCol_CountNewline(b, line, col, extend) ==
  IF line < 0 \/ col < 0 \/ line >= Len(b.lineCache)
  THEN [b |-> b, err |-> "ErrInvalidLineCol"]
  ELSE LET lineStart == b.lineCache[line + 1]
           lineEnd   == IF line + 1 < Len(b.lineCache)
                        THEN b.lineCache[line + 2]
                        ELSE Rope_TotalGraphemes(b.document)
           lineLen   == lineEnd - lineStart
           actualCol == IF col > lineLen THEN lineLen ELSE col
           targetPos == lineStart + actualCol
       IN  [b   |-> [b EXCEPT !.selection = IF extend THEN Sel(b.selection.Start, targetPos)
                                                      ELSE Sel(targetPos, targetPos)],
            err |-> "nil"]

Buffer_MoveSelectionToLineCol(b, line, col, extend) ==
  IF line < 0 \/ col < 0 \/ line >= Len(b.lineCache)
  THEN [b |-> b, err |-> "ErrInvalidLineCol"]
  ELSE LET lineStart == b.lineCache[line + 1]
           lineEnd   == IF line + 1 < Len(b.lineCache)
                        THEN b.lineCache[line + 2] - 1
                        ELSE Rope_TotalGraphemes(b.document)
           lineLen   == lineEnd - lineStart
           actualCol == IF col > lineLen THEN lineLen ELSE col
           targetPos == lineStart + actualCol
       IN  [b   |-> [b EXCEPT !.selection = IF extend THEN Sel(b.selection.Start, targetPos)
                                                      ELSE Sel(targetPos, targetPos)],
            err |-> "nil"]

\* getWordType: the class of the cluster's first code point.
getWordType(s) ==
  IF s = << >> THEN "None"
  ELSE IF s[1] \in {"\n", " "} THEN "Whitespace"
  ELSE IF s[1] \in {"a", "b", "_"} THEN "Letter"
  ELSE "Symbol"

RECURSIVE scanWord(_, _, _, _)
\* The loop of findNextWordBoundary, nextPos being the position last looked at.
scanWord(doc, nextPos0, direction, currType) ==
  LET totalLen == Rope_TotalGraphemes(doc)
      nextPos  == nextPos0 + direction
  IN  IF nextPos >= totalLen \/ nextPos < 0 THEN Clamp(nextPos, 0, totalLen)
      ELSE LET g == Rope_Substring(doc, nextPos, nextPos + 1)
           IN  IF g.err # "nil" THEN nextPos
               ELSE IF getWordType(g.str) # currType
                    THEN (IF direction > 0 THEN nextPos ELSE nextPos + 1)
                    ELSE scanWord(doc, nextPos, direction, currType)

findNextWordBoundary(b, pos, direction) ==
  LET totalLen == Rope_TotalGraphemes(b.document)
  IN  IF pos >= totalLen THEN totalLen
      ELSE IF pos < 0 THEN 0
      ELSE LET curr == Rope_Substring(b.document, pos, pos + 1)
           IN  IF curr.err # "nil" THEN pos
               ELSE scanWord(b.document, pos, direction, getWordType(curr.str))

\* MoveToNextWord scanning from selection.Start, as MoveToPrevWord does.
Buffer_MoveToNextWord_FromAnchor(b, extend) ==
  LET newPos == findNextWordBoundary(b, b.selection.Start, 1)
  IN  [b   |-> [b EXCEPT !.selection = IF extend THEN Sel(b.selection.Start, newPos)
                                                 ELSE Sel(newPos, newPos)],
       err |-> "nil"]

Buffer_MoveToNextWord(b, extend) ==
  LET newPos == findNextWordBoundary(b, b.selection.End, 1)
  IN  [b   |-> [b EXCEPT !.selection = IF extend THEN Sel(b.selection.Start, newPos)
                                                 ELSE Sel(newPos, newPos)],
       err |-> "nil"]

\* MoveToPrevWord scanning from selection.Start itself, without the `- 1`.
Buffer_MoveToPrevWord_FromStart(b, extend) ==
  LET newPos == findNextWordBoundary(b, b.selection.Start, -1)
  IN  [b   |-> [b EXCEPT !.selection =
                  IF extend
                  THEN (IF b.selection.End = b.selection.Start
                        THEN Sel(newPos, b.selection.Start)
                        ELSE Sel(newPos, b.selection.End))
                  ELSE Sel(newPos, newPos)],
       err |-> "nil"]

Buffer_MoveToPrevWord(b, extend) ==
  LET newPos == findNextWordBoundary(b, b.selection.Start - 1, -1)
  IN  [b   |-> [b EXCEPT !.selection =
                  IF extend
                  THEN (IF b.selection.End = b.selection.Start
                        THEN Sel(newPos, b.selection.Start)
                        ELSE Sel(newPos, b.selection.End))
                  ELSE Sel(newPos, newPos)],
       err |-> "nil"]

\* line(i): the text of line i without its line feed.
Buffer_GetLine(b, lineNum) ==
  IF lineNum < 0 \/ lineNum >= Len(b.lineCache)
  THEN [str |-> << >>, err |-> "ErrInvalidLineCol"]
  ELSE LET lineStart == b.lineCache[lineNum + 1]
           lineEnd   == IF lineNum + 1 < Len(b.lineCache)
                        THEN b.lineCache[lineNum + 2] - 1
                        ELSE Rope_TotalGraphemes(b.document)
           sub       == Rope_Substring(b.document, lineStart, lineEnd)
       IN  [str |-> sub.str, err |-> IF sub.err = "nil" THEN "nil" ELSE "ErrInvalidRange"]

\* save(): truncate the file, write R.string(), clear dirty.  ioOk says
\* whether the file system carries the write out.
Buffer_Save(b, ioOk) ==
  IF ioOk THEN [b |-> [b EXCEPT !.dirty = FALSE],
                written |-> TRUE, data |-> Rope_String(b.document), err |-> "nil"]
  ELSE [b |-> b, written |-> FALSE, data |-> << >>, err |-> "ErrIo"]

\* close(): save if dirty, release the file.
Buffer_Close(b, ioOk) ==
  IF b.dirty THEN Buffer_Save(b, ioOk)
  ELSE [b |-> b, written |-> FALSE, data |-> << >>, err |-> "nil"]

(***************************************************************************)
(* The chunk-based buffer of buffer/buffer.go and buffer/chunk.go: the     *)
(* file is cut into chunks of ChunkSize bytes that a ChunkManager loads on *)
(* demand and evicts least-recently-used first; the buffer keeps a cursor, *)
(* a byte offset.  A manager value is its fields: file is the content of   *)
(* the open file, totalSize the size NewChunkManager read from Stat,       *)
(* chunks the map of the loaded chunks, loadedChunks its counter, and used *)
(* the ids of the loaded chunks from the least to the most recently used   *)
(* (the order of their LastUsed stamps).  A *Chunk is the id of its entry  *)
(* in chunks.  The model's bytes are ASCII: a byte is a rune.              *)
(***************************************************************************)
\* F applied to the value of v, v being computed once.
With(v, F(_)) == CHOOSE r \in {F(x) : x \in {v}} : TRUE

RemoveId(ids, id) == SelectSeq(ids, LAMBDA x : x # id)
DropKey(f, k) == [x \in DOMAIN f \ {k} |-> f[x]]
NoChunks == [x \in {} |-> Nil]

\* c.LastUsed = time.Now()
Touch(cm, id) ==
  IF id \in DOMAIN cm.chunks THEN [cm EXCEPT !.used = Append(RemoveId(@, id), id)] ELSE cm

Chunk_Read(cm, id) ==
  [cm |-> Touch(cm, id), data |-> Rope_String(cm.chunks[id].Data)]

\* A write through a pointer to a chunk that has left the map changes
\* nothing the manager can see.
Chunk_Write(cm, id, data) ==
  IF id \in DOMAIN cm.chunks
  THEN Touch([cm EXCEPT !.chunks[id] = [Data |-> NewRope(data), Dirty |-> TRUE]], id)
  ELSE cm

NewChunkManager(content) ==
  [file |-> content, totalSize |-> Len(content), chunks |-> NoChunks,
   loadedChunks |-> 0, used |-> << >>]

\* os.File.WriteAt: overwrite from byte off on, growing the file if needed.
WriteAt(f, data, off) ==
  SubSeq(f, 1, off) \o data \o SubSeq(f, off + Len(data) + 1, Len(f))

saveChunk(cm, id) ==
  With(Chunk_Read(cm, id), LAMBDA r :
    [r.cm EXCEPT !.file = WriteAt(@, r.data, id * ChunkSize),
                 !.chunks[id].Dirty = FALSE])

evictOldestChunk(cm) ==
  IF cm.used = << >> THEN [cm EXCEPT !.loadedChunks = @ - 1]
  ELSE LET oldestID == Head(cm.used)
           saved    == IF cm.chunks[oldestID].Dirty THEN saveChunk(cm, oldestID) ELSE cm
       IN  [saved EXCEPT !.chunks = DropKey(@, oldestID),
                         !.used = RemoveId(@, oldestID),
                         !.loadedChunks = @ - 1]

loadChunk(cm, id) ==
  LET offset    == id * ChunkSize
      remaining == cm.totalSize - offset
      size      == IF remaining < ChunkSize THEN remaining ELSE ChunkSize
  IN  IF offset >= cm.totalSize THEN [err |-> "EOF", chunk |-> Nil]
      ELSE [err   |-> "nil",
            chunk |-> [Data  |-> NewRope(SubSeq(cm.file, offset + 1, offset + size)),
                       Dirty |-> FALSE]]

ChunkManager_GetChunk(cm, id) ==
  IF id \in DOMAIN cm.chunks THEN [cm |-> Touch(cm, id), err |-> "nil"]
  ELSE With(IF cm.loadedChunks >= MaxLoadedChunks THEN evictOldestChunk(cm) ELSE cm,
            LAMBDA ev :
    With(loadChunk(ev, id), LAMBDA ld :
      IF ld.err # "nil" THEN [cm |-> ev, err |-> ld.err]
      ELSE [cm  |-> [ev EXCEPT !.chunks = (id :> ld.chunk) @@ @,
                               !.used = Append(@, id),
                               !.loadedChunks = @ + 1],
            err |-> "nil"]))

\* A chunk-based buffer value: its manager and its cursor.
ChunkBuffer_NewBuffer(content) == [manager |-> NewChunkManager(content), cursor |-> 0]

ChunkBuffer_Size(b) == b.manager.totalSize

\* The orders in which a range over the chunks map can visit its keys.
MapOrders(chunks) ==
  {o \in [1 .. Cardinality(DOMAIN chunks) -> DOMAIN chunks] :
     \A i, j \in DOMAIN o : i # j => o[i] # o[j]}

RECURSIVE saveDirty(_, _)
saveDirty(cm, order) ==
  IF order = << >> THEN cm
  ELSE With(IF cm.chunks[Head(order)].Dirty THEN saveChunk(cm, Head(order)) ELSE cm,
            LAMBDA saved : saveDirty(saved, Tail(order)))

\* Save, the range over the map visiting the chunks in the given order.
ChunkBuffer_Save(b, order) ==
  [b |-> [b EXCEPT !.manager = saveDirty(@, order)], err |-> "nil"]

ChunkBuffer_SetCursor(b, pos) ==
  IF pos < 0 \/ pos > ChunkBuffer_Size(b) THEN [b |-> b, err |-> "ErrOutOfBounds"]
  ELSE [b |-> [b EXCEPT !.cursor = pos], err |-> "nil"]

ChunkBuffer_MoveCursor(b, offset) == ChunkBuffer_SetCursor(b, b.cursor + offset)

\* s[lo:] and s[:hi] of Go, 0-based; out of range panics.
SliceFrom(s, lo) == SubSeq(s, lo + 1, Len(s))
SliceTo(s, hi) == SubSeq(s, 1, hi)

ChunkBuffer_Insert(b, s) ==
  LET chunkID     == b.cursor \div ChunkSize
      relativePos == b.cursor % ChunkSize
  IN  With(ChunkManager_GetChunk(b.manager, chunkID), LAMBDA g :
        IF g.err # "nil" THEN [b |-> [b EXCEPT !.manager = g.cm], err |-> g.err]
        ELSE With(Chunk_Read(g.cm, chunkID), LAMBDA rd :
          IF relativePos > Len(rd.data)
          THEN [b |-> [b EXCEPT !.manager = rd.cm], err |-> "panic"]
          ELSE [b   |-> [b EXCEPT !.manager =
                                    Chunk_Write(rd.cm, chunkID,
                                                SliceTo(rd.data, relativePos) \o s
                                                  \o SliceFrom(rd.data, relativePos)),
                                  !.cursor = @ + Len(s)],
                err |-> "nil"]))

\* The loop `for chunkID := first; chunkID <= last; chunkID++` of Delete.
RECURSIVE dropChunks(_, _, _)
dropChunks(cm, first, lst) ==
  IF first > lst THEN cm
  ELSE [dropChunks(cm, first + 1, lst) EXCEPT !.chunks = DropKey(@, first),
                                              !.used = RemoveId(@, first),
                                              !.loadedChunks = @ - 1]

\* The multi-chunk case of Delete, the first chunk read as r1.
deleteAcross(b, r1, start, end, newCursor) ==
  LET startChunk == start \div ChunkSize
      endChunk   == end \div ChunkSize
      relStart   == start % ChunkSize
      relEnd     == end % ChunkSize
  IN  With(ChunkManager_GetChunk(r1.cm, endChunk), LAMBDA g2 :
        With(IF g2.err = "nil" THEN Chunk_Read(g2.cm, endChunk)
                               ELSE [cm |-> g2.cm, data |-> << >>],
             LAMBDA r2 :
          IF g2.err = "nil" /\ relEnd > Len(r2.data)
          THEN [b |-> [b EXCEPT !.manager = r2.cm], err |-> "panic"]
          ELSE [b   |-> [manager |-> dropChunks(
                                       Chunk_Write(r2.cm, startChunk,
                                                   SliceTo(r1.data, relStart)
                                                     \o (IF g2.err = "nil"
                                                         THEN SliceFrom(r2.data, relEnd)
                                                         ELSE << >>)),
                                       startChunk + 1, endChunk),
                         cursor  |-> newCursor],
                err |-> "nil"]))

ChunkBuffer_Delete(b, start, end) ==
  IF start < 0 \/ end > ChunkBuffer_Size(b) \/ start > end
  THEN [b |-> b, err |-> "ErrInvalidRange"]
  ELSE
    LET startChunk == start \div ChunkSize
        endChunk   == end \div ChunkSize
        relStart   == start % ChunkSize
        relEnd     == end % ChunkSize
        newCursor  == IF b.cursor > start THEN start ELSE b.cursor
    IN  With(ChunkManager_GetChunk(b.manager, startChunk), LAMBDA g1 :
          IF g1.err # "nil" THEN [b |-> [b EXCEPT !.manager = g1.cm], err |-> g1.err]
          ELSE With(Chunk_Read(g1.cm, startChunk), LAMBDA r1 :
            IF relStart > Len(r1.data)
            THEN [b |-> [b EXCEPT !.manager = r1.cm], err |-> "panic"]
            ELSE IF startChunk # endChunk
                 THEN deleteAcross(b, r1, start, end, newCursor)
            ELSE IF relEnd > Len(r1.data)
                 THEN [b |-> [b EXCEPT !.manager = r1.cm], err |-> "panic"]
            ELSE [b   |-> [manager |-> Chunk_Write(r1.cm, startChunk,
                                         SliceTo(r1.data, relStart)
                                           \o SliceFrom(r1.data, relEnd)),
                           cursor  |-> newCursor],
                  err |-> "nil"]))

\* The loop over the runes of one chunk in PositionToLineCol, from rune i on.
RECURSIVE posRunes(_, _, _, _)
posRunes(data, i, pos, st) ==
  IF i > Len(data) THEN [st EXCEPT !.found = FALSE]
  ELSE IF st.position = pos THEN [st EXCEPT !.found = TRUE]
  ELSE With(IF data[i] = "\n"
            THEN [st EXCEPT !.line = @ + 1, !.column = 0, !.position = @ + 1]
            ELSE [st EXCEPT !.column = @ + 1, !.position = @ + 1],
            LAMBDA s1 : posRunes(data, i + 1, pos, s1))

\* The loop over the chunks in PositionToLineCol, from chunk chunkID on.
RECURSIVE posChunks(_, _, _, _)
posChunks(cm, chunkID, pos, st) ==
  With(ChunkManager_GetChunk(cm, chunkID), LAMBDA g :
    IF g.err = "EOF"
    THEN IF st.position = pos
         THEN [cm |-> g.cm, line |-> st.line, col |-> st.column, err |-> "nil"]
         ELSE [cm |-> g.cm, line |-> 0, col |-> 0, err |-> "ErrInvalidPosition"]
    ELSE With(Chunk_Read(g.cm, chunkID), LAMBDA rd :
      With(posRunes(rd.data, 1, pos, st), LAMBDA s2 :
        IF s2.found
        THEN [cm |-> rd.cm, line |-> s2.line, col |-> s2.column, err |-> "nil"]
        ELSE posChunks(rd.cm, chunkID + 1, pos, s2))))

ChunkBuffer_PositionToLineCol(b, pos) ==
  IF pos < 0 \/ pos > ChunkBuffer_Size(b)
  THEN [b |-> b, line |-> 0, col |-> 0, err |-> "ErrInvalidPosition"]
  ELSE With(posChunks(b.manager, 0, pos,
                      [line |-> 0, column |-> 0, position |-> 0, found |-> FALSE]),
            LAMBDA r :
         [b |-> [b EXCEPT !.manager = r.cm], line |-> r.line, col |-> r.col, err |-> r.err])

\* The loop over the runes of one chunk in MoveCursorToLineCol, from rune i on.
RECURSIVE lineColRunes(_, _, _, _, _)
lineColRunes(data, i, line, col, st) ==
  IF i > Len(data) THEN st
  ELSE IF st.currentLine = line /\ (st.currentCol = col \/ data[i] = "\n")
       THEN [st EXCEPT !.targetPosition = st.position, !.targetCol = st.currentCol]
  ELSE With([currentLine    |-> IF data[i] = "\n" THEN st.currentLine + 1
                                                  ELSE st.currentLine,
             currentCol     |-> IF data[i] = "\n" THEN 0
                                ELSE IF st.currentLine = line THEN st.currentCol + 1
                                ELSE st.currentCol,
             position       |-> st.position + 1,
             targetPosition |-> st.targetPosition,
             targetCol      |-> st.targetCol],
            LAMBDA s1 : lineColRunes(data, i + 1, line, col, s1))

\* The loop over the chunks in MoveCursorToLineCol, from chunk chunkID on.
RECURSIVE lineColChunks(_, _, _, _, _)
lineColChunks(cm, chunkID, line, col, st) ==
  With(ChunkManager_GetChunk(cm, chunkID), LAMBDA g :
    IF g.err = "EOF" THEN [cm |-> g.cm, st |-> st]
    ELSE With(Chunk_Read(g.cm, chunkID), LAMBDA rd :
      With(lineColRunes(rd.data, 1, line, col, st), LAMBDA s2 :
        IF s2.targetPosition # -1 THEN [cm |-> rd.cm, st |-> s2]
        ELSE lineColChunks(rd.cm, chunkID + 1, line, col, s2))))

\* MoveCursorToLineCol once the loops have ended in the state r.
lineColFinish(b, line, r) ==
  LET st == IF r.st.targetPosition = -1 /\ r.st.currentLine = line
            THEN [r.st EXCEPT !.targetPosition = r.st.position,
                              !.targetCol = r.st.currentCol]
            ELSE r.st
      b1 == [b EXCEPT !.manager = r.cm]
      sc == ChunkBuffer_SetCursor(b1, st.targetPosition)
  IN  IF st.targetPosition = -1
      THEN [b |-> b1, line |-> 0, col |-> 0, err |-> "ErrInvalidLineCol"]
      ELSE IF sc.err # "nil" THEN [b |-> b1, line |-> 0, col |-> 0, err |-> sc.err]
      ELSE [b |-> sc.b, line |-> st.currentLine, col |-> st.targetCol, err |-> "nil"]

ChunkBuffer_MoveCursorToLineCol(b, line, col) ==
  IF line < 0 \/ col < 0 THEN [b |-> b, line |-> 0, col |-> 0, err |-> "ErrInvalidLineCol"]
  ELSE With(lineColChunks(b.manager, 0, line, col,
                          [currentLine |-> 0, currentCol |-> 0, position |-> 0,
                           targetPosition |-> -1, targetCol |-> col]),
            LAMBDA r : lineColFinish(b, line, r))

\* strings.Count(s, "\n")
RECURSIVE countNewlines(_)
countNewlines(s) ==
  IF s = << >> THEN 0 ELSE (IF Head(s) = "\n" THEN 1 ELSE 0) + countNewlines(Tail(s))

\* strings.HasSuffix(s, "\n")
HasNewlineSuffix(s) == s # << >> /\ s[Len(s)] = "\n"

\* The loop over the chunks in LineCount, from chunk chunkID on.
RECURSIVE countChunks(_, _, _)
countChunks(cm, chunkID, count) ==
  With(ChunkManager_GetChunk(cm, chunkID), LAMBDA g :
    IF g.err = "EOF" THEN [cm |-> g.cm, count |-> count]
    ELSE With(Chunk_Read(g.cm, chunkID), LAMBDA rd :
      With(count + countNewlines(rd.data), LAMBDA c :
        countChunks(rd.cm, chunkID + 1, c))))

ChunkBuffer_LineCount(b) ==
  With(countChunks(b.manager, 0, 0), LAMBDA r :
    With(ChunkManager_GetChunk(r.cm, r.cm.totalSize \div ChunkSize), LAMBDA g :
      IF g.err # "nil"
      THEN [b |-> [b EXCEPT !.manager = g.cm], count |-> r.count, err |-> "nil"]
      ELSE With(Chunk_Read(g.cm, r.cm.totalSize \div ChunkSize), LAMBDA rd :
        [b     |-> [b EXCEPT !.manager = rd.cm],
         count |-> IF HasNewlineSuffix(rd.data) THEN r.count ELSE r.count + 1,
         err   |-> "nil"])))

(***************************************************************************)
(* The editor facade (the rope-based draft of editor.go).  An editor value *)
(* is its fields: buffers maps the absolute paths of the open files to     *)
(* their buffers, current is the key of the current buffer or NoCurrent    *)
(* (the nil pointer), mode and desiredColumn.                              *)
(***************************************************************************)
NoCurrent == "nil"
NoColumn == -1

\* The paths the client passes, and filepath.Abs of each with the working
\* directory /w.
Paths == {"a.txt", "/w/a.txt", "b.txt", "c.txt", "none.txt"}
Abs(path) ==
  CASE path \in {"a.txt", "/w/a.txt"} -> "/w/a.txt"
    [] path = "b.txt"    -> "/w/b.txt"
    [] path = "c.txt"    -> "/w/c.txt"
    [] path = "none.txt" -> "/w/none.txt"
IsAbs(path) == path = "/w/a.txt"
AbsPaths == {Abs(p) : p \in Paths}

\* filepath.Base of an absolute path.
Base(abs) ==
  CASE abs = "/w/a.txt" -> "a.txt"
    [] abs = "/w/b.txt" -> "b.txt"
    [] abs = "/w/c.txt" -> "c.txt"
    [] OTHER            -> "none.txt"

NewEditor ==
  [buffers |-> << >>, current |-> NoCurrent, mode |-> "Normal",
   desiredColumn |-> NoColumn]

HasCurrent(e) == e.current # NoCurrent
Cur(e) == e.buffers[e.current]

\* The editor after its current buffer became r.b, with r's error.
OnCurrent(e, r) ==
  [e |-> [e EXCEPT !.buffers[e.current] = r.b], err |-> r.err, res |-> << >>]

Fail(e, err) == [e |-> e, err |-> err, res |-> << >>]

\* OpenFile without the lookup of the path among the open buffers.
Editor_OpenFile_AlwaysNew(e, filePath, cwdOk, d) ==
  IF ~IsAbs(filePath) /\ ~cwdOk THEN Fail(e, "ErrGetwd")
  ELSE LET absPath == Abs(filePath)
       IN  IF absPath \notin DOMAIN d THEN Fail(e, "ErrIo")
           ELSE [e   |-> [e EXCEPT
                            !.buffers = (absPath :> NewBuffer(absPath, d[absPath])) @@ @,
                            !.current = absPath],
                 err |-> "nil", res |-> << >>]

\* d is the disk: the content of each existing file.  cwdOk says whether
\* os.Getwd succeeds, which filepath.Abs needs for a relative path.
Editor_OpenFile(e, filePath, cwdOk, d) ==
  IF ~IsAbs(filePath) /\ ~cwdOk THEN Fail(e, "ErrGetwd")
  ELSE LET absPath == Abs(filePath)
       IN  IF absPath \in DOMAIN e.buffers
           THEN [e |-> [e EXCEPT !.current = absPath], err |-> "nil", res |-> << >>]
           ELSE IF absPath \notin DOMAIN d THEN Fail(e, "ErrIo")
           ELSE [e   |-> [e EXCEPT
                            !.buffers = (absPath :> NewBuffer(absPath, d[absPath])) @@ @,
                            !.current = absPath],
                 err |-> "nil", res |-> << >>]

Editor_getBuffer(e, filePath, cwdOk) ==
  IF ~IsAbs(filePath) /\ ~cwdOk THEN [path |-> NoCurrent, err |-> "ErrGetwd"]
  ELSE IF Abs(filePath) \notin DOMAIN e.buffers
       THEN [path |-> NoCurrent, err |-> "ErrBufferNotFound"]
       ELSE [path |-> Abs(filePath), err |-> "nil"]

\* SwitchBuffer assigning e.current before it looks at getBuffer's error.
Editor_SwitchBuffer_AssignFirst(e, filePath, cwdOk) ==
  LET b == Editor_getBuffer(e, filePath, cwdOk)
  IN  [e   |-> [e EXCEPT !.current = b.path],
       err |-> b.err, res |-> << >>]

Editor_SwitchBuffer(e, filePath, cwdOk) ==
  LET b == Editor_getBuffer(e, filePath, cwdOk)
  IN  IF b.err # "nil" THEN Fail(e, b.err)
      ELSE [e |-> [e EXCEPT !.current = b.path], err |-> "nil", res |-> << >>]

Editor_GetBufferList(e) == [e |-> e, err |-> "nil", res |-> DOMAIN e.buffers]

Editor_GetMode(e) == [e |-> e, err |-> "nil", res |-> e.mode]

Editor_SetMode(e, m) == [e |-> [e EXCEPT !.mode = m], err |-> "nil", res |-> << >>]

Editor_FileName(e) ==
  IF ~HasCurrent(e) THEN Fail(e, "ErrNoBuffer")
  ELSE [e |-> e, err |-> "nil", res |-> Base(Cur(e).filePath)]

Editor_FileType(e) ==
  IF ~HasCurrent(e) THEN Fail(e, "ErrNoBuffer")
  ELSE [e |-> e, err |-> "nil", res |-> Base(Cur(e).filePath)]

Editor_FilePath(e) ==
  IF ~HasCurrent(e) THEN Fail(e, "ErrNoBuffer")
  ELSE [e |-> e, err |-> "nil", res |-> Cur(e).filePath]

\* InsertText with the mode tested before the current buffer.
Editor_InsertText_ModeFirst(e, text) ==
  IF e.mode # "Insert" THEN Fail(e, "ErrInvalidOperation")
  ELSE IF ~HasCurrent(e) THEN Fail(e, "ErrNoBuffer")
  ELSE LET collapsed == Buffer_CollapseSelectionsToCursor(Cur(e))
           r         == Buffer_Insert(collapsed, text)
       IN  OnCurrent(e, [b |-> IF r.err = "nil" THEN r.b ELSE collapsed, err |-> r.err])

Editor_InsertText(e, text) ==
  IF ~HasCurrent(e) THEN Fail(e, "ErrNoBuffer")
  ELSE IF e.mode # "Insert" THEN Fail(e, "ErrInvalidOperation")
  ELSE LET collapsed == Buffer_CollapseSelectionsToCursor(Cur(e))
           r         == Buffer_Insert(collapsed, text)
       IN  OnCurrent(e, [b |-> IF r.err = "nil" THEN r.b ELSE collapsed, err |-> r.err])

Editor_DeleteSelection(e) ==
  IF ~HasCurrent(e) THEN Fail(e, "ErrNoBuffer")
  ELSE OnCurrent(e, Buffer_DeleteSelection(Cur(e)))

Editor_DeleteText(e, length) ==
  IF ~HasCurrent(e) THEN Fail(e, "ErrNoBuffer")
  ELSE LET end == Buffer_Selection(Cur(e)).End
           pos == IF length < 0 THEN end + length ELSE end
           len == IF length < 0 THEN -length ELSE length
       IN  OnCurrent(e, Buffer_Delete(Cur(e), pos, pos + len))

\* GetCurrentPosition calls e.current.Selection() without testing e.current:
\* with no current buffer the call dereferences a nil *Buffer and panics.
Editor_GetCurrentPosition(e) ==
  IF ~HasCurrent(e) THEN Fail(e, "panic")
  ELSE LET r == Buffer_PositionToLineCol(Cur(e), Buffer_Selection(Cur(e)).End)
       IN  [e |-> e, err |-> r.err, res |-> <<r.line, r.col>>]

Editor_LineCol(e, pos) ==
  IF ~HasCurrent(e) THEN Fail(e, "ErrNoBuffer")
  ELSE LET r == Buffer_PositionToLineCol(Cur(e), pos)
       IN  [e |-> e, err |-> r.err, res |-> <<r.line, r.col>>]

Editor_Selection(e) ==
  IF ~HasCurrent(e) THEN Fail(e, "ErrNoBuffer")
  ELSE [e |-> e, err |-> "nil", res |-> Buffer_Selection(Cur(e))]

Editor_MoveCursorHorizontal(e, offset, extend) ==
  IF ~HasCurrent(e) THEN Fail(e, "ErrNoBuffer")
  ELSE LET moved == OnCurrent(e, Buffer_MoveSelections(Cur(e), offset, extend))
           lc    == Buffer_PositionToLineCol(Cur(moved.e), Buffer_Selection(Cur(moved.e)).End)
       IN  IF moved.err # "nil" THEN Fail(e, moved.err)
           ELSE IF lc.err # "nil" THEN [moved EXCEPT !.err = lc.err]
           ELSE [moved EXCEPT !.e.desiredColumn = lc.col]

\* JumpTo that remembers the column it reached instead of the one it aimed at.
JumpTo_RememberReached(e, targetLine, currCol, extend) ==
  LET r  == OnCurrent(e, Buffer_MoveSelectionToLineCol(Cur(e), targetLine,
                           IF e.desiredColumn = NoColumn THEN currCol
                           ELSE e.desiredColumn, extend))
      lc == Buffer_PositionToLineCol(Cur(r.e), Buffer_Selection(Cur(r.e)).End)
  IN  [r EXCEPT !.e.desiredColumn = lc.col]

\* The tail shared by the vertical motions: adopt the current column if no
\* column is remembered, then move to (line, desiredColumn).
JumpTo(e, targetLine, currCol, extend) ==
  LET e1 == IF e.desiredColumn = NoColumn THEN [e EXCEPT !.desiredColumn = currCol] ELSE e
  IN  OnCurrent(e1, Buffer_MoveSelectionToLineCol(Cur(e1), targetLine,
                                                  e1.desiredColumn, extend))

Editor_JumpFromCursor(e, offset, extend) ==
  IF ~HasCurrent(e) THEN Fail(e, "ErrNoBuffer")
  ELSE LET lc         == Buffer_PositionToLineCol(Cur(e), Buffer_Selection(Cur(e)).End)
           totalLines == Buffer_LineCount(Cur(e))
           t0         == IF lc.line + offset < 0 THEN 0 ELSE lc.line + offset
           targetLine == IF t0 >= totalLines THEN totalLines - 1 ELSE t0
       IN  IF lc.err # "nil" THEN Fail(e, lc.err)
           ELSE JumpTo(e, targetLine, lc.col, extend)

Editor_JumpToLine(e, lineNum, extend) ==
  IF ~HasCurrent(e) THEN Fail(e, "ErrNoBuffer")
  ELSE LET totalLines == Buffer_LineCount(Cur(e))
           l0         == IF lineNum < 0 THEN 0 ELSE lineNum
           line       == IF l0 >= totalLines THEN totalLines - 1 ELSE l0
           lc         == Buffer_PositionToLineCol(Cur(e), Buffer_Selection(Cur(e)).End)
       IN  IF lc.err # "nil" THEN Fail(e, lc.err)
           ELSE JumpTo(e, line, lc.col, extend)

Editor_JumpToTop(e, extend) ==
  IF ~HasCurrent(e) THEN Fail(e, "ErrNoBuffer")
  ELSE OnCurrent(e, Buffer_MoveSelectionToLineCol(Cur(e), 0, 0, extend))

Editor_JumpToBottom(e, extend) ==
  IF ~HasCurrent(e) THEN Fail(e, "ErrNoBuffer")
  ELSE OnCurrent(e, Buffer_MoveSelectionToLineCol(Cur(e), Buffer_LineCount(Cur(e)) - 1,
                                                  0, extend))

Editor_MoveToNextWord(e, extend) ==
  IF ~HasCurrent(e) THEN Fail(e, "ErrNoBuffer")
  ELSE OnCurrent(e, Buffer_MoveToNextWord(Cur(e), extend))

Editor_MoveToPrevWord(e, extend) ==
  IF ~HasCurrent(e) THEN Fail(e, "ErrNoBuffer")
  ELSE OnCurrent(e, Buffer_MoveToPrevWord(Cur(e), extend))

\* The disk after a buffer operation that may have written its file.
Written(d, path, r) == IF r.written THEN (path :> r.data) @@ d ELSE d

Editor_SaveCurrentBuffer(e, ioOk, d) ==
  IF ~HasCurrent(e) THEN [e |-> e, err |-> "ErrNoBuffer", res |-> << >>, disk |-> d]
  ELSE LET r == Buffer_Save(Cur(e), ioOk)
       IN  [e |-> [e EXCEPT !.buffers[e.current] = r.b], err |-> r.err, res |-> << >>,
            disk |-> Written(d, e.current, r)]

\* CloseCurrentBuffer without the second range loop: current is always cleared.
Editor_CloseCurrentBuffer_AlwaysClear(e, ioOk, pick, d) ==
  IF ~HasCurrent(e) THEN [e |-> e, err |-> "ErrNoBuffer", res |-> << >>, disk |-> d]
  ELSE LET r    == Buffer_Close(Cur(e), ioOk)
           rest == [p \in (DOMAIN e.buffers) \ {e.current} |-> e.buffers[p]]
       IN  IF r.err # "nil"
           THEN [e |-> e, err |-> r.err, res |-> << >>, disk |-> d]
           ELSE [e    |-> [e EXCEPT !.buffers = rest, !.current = NoCurrent],
                 err  |-> "nil", res |-> << >>,
                 disk |-> Written(d, e.current, r)]

\* pick is the buffer the second range loop meets first (Go's map order is
\* not fixed); it is used only if a buffer remains.
Editor_CloseCurrentBuffer(e, ioOk, pick, d) ==
  IF ~HasCurrent(e) THEN [e |-> e, err |-> "ErrNoBuffer", res |-> << >>, disk |-> d]
  ELSE LET r    == Buffer_Close(Cur(e), ioOk)
           rest == [p \in (DOMAIN e.buffers) \ {e.current} |-> e.buffers[p]]
       IN  IF r.err # "nil"
           THEN [e |-> e, err |-> r.err, res |-> << >>, disk |-> d]
           ELSE [e    |-> [e EXCEPT !.buffers = rest,
                                    !.current = IF pick \in DOMAIN rest THEN pick
                                                ELSE IF DOMAIN rest = {} THEN NoCurrent
                                                ELSE CHOOSE p \in DOMAIN rest : TRUE],
                 err  |-> "nil", res |-> << >>,
                 disk |-> Written(d, e.current, r)]

Editor_GetLine(e, lineNum) ==
  IF ~HasCurrent(e) THEN Fail(e, "ErrNoBuffer")
  ELSE LET r == Buffer_GetLine(Cur(e), lineNum)
       IN  [e |-> e, err |-> r.err, res |-> r.str]

Editor_GetLineCount(e) ==
  IF ~HasCurrent(e) THEN Fail(e, "ErrNoBuffer")
  ELSE [e |-> e, err |-> "nil", res |-> Buffer_LineCount(Cur(e))]

(***************************************************************************)
(* State.                                                                  *)
(*   root    the rope's root pointer                                       *)
(*   last    the Rope call that has just returned: its name, arguments,    *)
(*           error, the text it returned and the root it was called on;    *)
(*           op = "none" once the caller has taken the result              *)
(*   it      the iterator (live = FALSE: none has been created)            *)
(*   itSrc   the root the iterator was created on                          *)
(*   itOut   the clusters Next has yielded so far                          *)
(*   itCalls what the calls of Next reported: the number of exhausted      *)
(*           calls, and whether a call succeeded after an exhausted one    *)
(*   editor  the Editor: buffers, current, mode, desiredColumn             *)
(*   disk    the content of each file that exists                          *)
(*   elast   the Editor call that has just returned: its name, arguments,  *)
(*           error (or "panic"), result, and the editor and disk it was    *)
(*           called on; op = "none" once the caller has taken the result   *)
(*   edits   the number of edits the client has made                       *)
(*   buf     a buffer used directly, without the editor                    *)
(*   blast   the last call made on buf, as elast                           *)
(*   bedits  the number of edits made on buf                               *)
(*   cbuf    a chunk-based buffer                                          *)
(*   clast   the last call made on cbuf, as elast                          *)
(*   cedits  the number of edits made on cbuf                              *)
(***************************************************************************)
(***************************************************************************)
(* The rope on the heap.  The operators above treat a tree as a value;    *)
(* here a *RopeNode is an address, an index into the sequence of the       *)
(* nodes allocated so far (0 is nil), so that a write to a node would be   *)
(* seen by everything that holds its address.  &RopeNode{...} appends a    *)
(* node; nothing else changes the heap.                                    *)
(***************************************************************************)
HeapNode(l, r, w, d) == [left |-> l, right |-> r, weight |-> w, data |-> d]

\* &RopeNode{...}
Alloc(h, node) == [h |-> Append(h, node), a |-> Len(h) + 1]

HeapIsLeaf(h, n) == h[n].left = 0 /\ h[n].right = 0

RECURSIVE TreeAt(_, _)
\* The tree that the address n stands for.
TreeAt(h, n) ==
  IF n = 0 THEN Nil
  ELSE IF HeapIsLeaf(h, n) THEN LeafNode(h[n].data, h[n].weight)
  ELSE InnerNode(TreeAt(h, h[n].left), TreeAt(h, h[n].right), h[n].weight)

HeapTotalGraphemes(h, n) == totalGraphemes(TreeAt(h, n))

HeapConcatenate(h, left, right) ==
  IF left = 0 THEN [h |-> h, a |-> right]
  ELSE IF right = 0 THEN [h |-> h, a |-> left]
  ELSE Alloc(h, HeapNode(left, right, HeapTotalGraphemes(h, left), << >>))

\* The leaf case of Split writing the left part into the node itself.
HeapSplitLeaf_InPlace(h, n, index) ==
  IF index <= 0 THEN [h |-> h, l |-> 0, r |-> n]
  ELSE IF index >= h[n].weight THEN [h |-> h, l |-> n, r |-> 0]
  ELSE LET sp == SplitLeaf(TreeAt(h, n), index)
           hl == [h EXCEPT ![n] = HeapNode(0, 0, sp[1].weight, sp[1].data)]
           ar == Alloc(hl, HeapNode(0, 0, sp[2].weight, sp[2].data))
       IN  [h |-> ar.h, l |-> n, r |-> ar.a]

HeapSplitLeaf(h, n, index) ==
  IF index <= 0 THEN [h |-> h, l |-> 0, r |-> n]
  ELSE IF index >= h[n].weight THEN [h |-> h, l |-> n, r |-> 0]
  ELSE LET sp == SplitLeaf(TreeAt(h, n), index)
           al == Alloc(h, HeapNode(0, 0, sp[1].weight, sp[1].data))
           ar == Alloc(al.h, HeapNode(0, 0, sp[2].weight, sp[2].data))
       IN  [h |-> ar.h, l |-> al.a, r |-> ar.a]

RECURSIVE HeapSplit(_, _, _)
HeapSplit(h, n, index) ==
  IF n = 0 THEN [h |-> h, l |-> 0, r |-> 0]
  ELSE IF HeapIsLeaf(h, n) THEN HeapSplitLeaf(h, n, index)
  ELSE IF index < h[n].weight
       THEN With(HeapSplit(h, h[n].left, index), LAMBDA s :
              With(HeapConcatenate(s.h, s.r, h[n].right), LAMBDA c :
                [h |-> c.h, l |-> s.l, r |-> c.a]))
       ELSE With(HeapSplit(h, h[n].right, index - h[n].weight), LAMBDA s :
              With(HeapConcatenate(s.h, h[n].left, s.l), LAMBDA c :
                [h |-> c.h, l |-> c.a, r |-> s.r]))

RECURSIVE HeapBuildBalancedTree(_, _)
HeapBuildBalancedTree(h, leaves) ==
  IF Len(leaves) = 0 THEN [h |-> h, a |-> 0]
  ELSE IF Len(leaves) = 1 THEN [h |-> h, a |-> leaves[1]]
  ELSE With(HeapBuildBalancedTree(h, SubSeq(leaves, 1, Len(leaves) \div 2)), LAMBDA l :
         With(HeapBuildBalancedTree(l.h, SubSeq(leaves, Len(leaves) \div 2 + 1, Len(leaves))),
              LAMBDA r :
           Alloc(r.h, HeapNode(l.a, r.a, HeapTotalGraphemes(r.h, l.a), << >>))))

RECURSIVE HeapFlatten(_, _)
HeapFlatten(h, n) ==
  IF n = 0 THEN << >>
  ELSE IF HeapIsLeaf(h, n) THEN <<n>>
  ELSE HeapFlatten(h, h[n].left) \o HeapFlatten(h, h[n].right)

HeapRebalance(h, n) == HeapBuildBalancedTree(h, HeapFlatten(h, n))

\* NewRope: the leaves of splitIntoLeaves allocated in order, then the tree.
HeapNewRope(h, s) ==
  LET leaves == splitIntoLeaves(s, MaxLeafSize)
      hl     == h \o [k \in 1..Len(leaves) |-> HeapNode(0, 0, leaves[k].weight, leaves[k].data)]
  IN  HeapBuildBalancedTree(hl, [k \in 1..Len(leaves) |-> Len(h) + k])

\* The middle and the end of Insert and Replace: left ++ NewRope(s) ++ right,
\* rebalanced.
HeapJoin(h, left, s, right) ==
  With(HeapNewRope(h, s), LAMBDA ins :
    With(HeapConcatenate(ins.h, left, ins.a), LAMBDA nl :
      With(HeapConcatenate(nl.h, nl.a, right), LAMBDA c :
        HeapRebalance(c.h, c.a))))

HeapResult(h, root, err) == [h |-> h, root |-> root, err |-> err]

Heap_Insert(h, root, index, s) ==
  IF index < 0 \/ index > HeapTotalGraphemes(h, root)
  THEN HeapResult(h, root, "ErrOutOfBounds")
  ELSE With(HeapSplit(h, root, index), LAMBDA sp :
         With(HeapJoin(sp.h, sp.l, s, sp.r), LAMBDA j : HeapResult(j.h, j.a, "nil")))

Heap_Delete(h, root, start, end) ==
  IF start < 0 \/ end > HeapTotalGraphemes(h, root) \/ start > end
  THEN HeapResult(h, root, "ErrInvalidRange")
  ELSE With(HeapSplit(h, root, start), LAMBDA sp :
         With(HeapSplit(sp.h, sp.r, end - start), LAMBDA sp2 :
           With(HeapConcatenate(sp2.h, sp.l, sp2.r), LAMBDA c :
             With(HeapRebalance(c.h, c.a), LAMBDA j : HeapResult(j.h, j.a, "nil")))))

Heap_Replace(h, root, start, end, s) ==
  IF start < 0 \/ end > HeapTotalGraphemes(h, root) \/ start > end
  THEN HeapResult(h, root, "ErrInvalidRange")
  ELSE With(HeapSplit(h, root, start), LAMBDA sp :
         With(HeapSplit(sp.h, sp.r, end - start), LAMBDA sp2 :
           With(HeapJoin(sp2.h, sp.l, s, sp2.r), LAMBDA j : HeapResult(j.h, j.a, "nil"))))

\* The iterator holds addresses: current and the stack.
HeapNewIterator(root) ==
  [current |-> root, stack |-> << >>, graphemes |-> NoGraphemes, position |-> 0]

RECURSIVE heapDescendLeft(_, _)
heapDescendLeft(h, i) ==
  IF i.current = 0 THEN i
  ELSE heapDescendLeft(h, [i EXCEPT !.stack = Append(@, i.current),
                                    !.current = h[i.current].left])

RECURSIVE HeapNext(_, _)
\* Next, reading the nodes from the heap as it is when Next is called.
HeapNext(h, i) ==
  With(heapDescendLeft(h, i), LAMBDA d :
    IF Len(d.stack) = 0
    THEN [it |-> d, str |-> << >>, ok |-> FALSE]
    ELSE LET cur    == d.stack[Len(d.stack)]
             popped == [d EXCEPT !.current = cur,
                                 !.stack = SubSeq(@, 1, Len(@) - 1)]
         IN  IF HeapIsLeaf(h, cur)
             THEN LET g == IF popped.graphemes.set THEN popped.graphemes
                                                   ELSE NewGraphemes(h[cur].data)
                  IN  IF g.idx < Len(g.clusters)
                      THEN [it  |-> [popped EXCEPT
                                       !.graphemes = [g EXCEPT !.idx = @ + 1],
                                       !.position  = @ + 1],
                            str |-> g.clusters[g.idx + 1],
                            ok  |-> TRUE]
                      ELSE HeapNext(h, [popped EXCEPT !.graphemes = NoGraphemes,
                                                      !.current = h[cur].right])
             ELSE HeapNext(h, [popped EXCEPT !.current = h[cur].right]))

(***************************************************************************)
(* The viewport of the document view: the scroll offset and the padding.   *)
(***************************************************************************)
NewViewport(padding) == [offset |-> 0, padding |-> padding]

Viewport_Update(v, currLine, viewHeight) ==
  IF currLine - v.offset < v.padding
  THEN [v EXCEPT !.offset = Max2(0, currLine - v.padding)]
  ELSE IF currLine - v.offset > viewHeight - v.padding
       THEN [v EXCEPT !.offset = currLine - (viewHeight - v.padding)]
       ELSE v

Viewport_VisibleRange(v, viewHeight, totalLines) ==
  <<v.offset, Min2(totalLines, v.offset + viewHeight)>>

(***************************************************************************)
(* Locks and shared fields.  An operation is the sequence of its lock      *)
(* operations and of its accesses to shared fields, in the order of its    *)
(* code, calls inlined; the sequences below are read off the functions     *)
(* they are named after.  The chunk-based buffer of buffer.go stands for   *)
(* the editor's current buffer.                                            *)
(***************************************************************************)
Threads == {1, 2}
Locks == {"Editor", "Buffer", "Manager", "Chunk", "Rope", "LineIndex"}
\* Editor: mode, current, buffers.  Chunk-based buffer: cursor, the chunks
\* map and the text of the chunks.  Rope-based buffer: selection, lineCache
\* and the rope's root.
Fields == {"mode", "current", "buffers", "cursor", "chunks", "text",
           "selection", "lineCache", "root"}
EditorFields == {"mode", "current", "buffers"}

Lock(l) == <<"Lock", l>>
Unlock(l) == <<"Unlock", l>>
RLock(l) == <<"RLock", l>>
RUnlock(l) == <<"RUnlock", l>>
Read(f) == <<"Read", f>>
Write(f) == <<"Write", f>>

\* chunk.go
Chunk_Read_Steps == <<RLock("Chunk"), Read("text"), RUnlock("Chunk")>>
Chunk_Write_Steps == <<Lock("Chunk"), Write("text"), Unlock("Chunk")>>
GetChunk_Steps == <<Lock("Manager"), Read("chunks"), Unlock("Manager")>>

\* rope.go
Rope_Insert_Steps == <<Lock("Rope"), Read("root"), Write("root"), Unlock("Rope")>>
Rope_TotalGraphemes_Steps == <<RLock("Rope"), Read("root"), RUnlock("Rope")>>

\* buffer.go
Buffer_Insert_Steps ==
  <<Lock("Buffer"), Read("cursor")>> \o GetChunk_Steps \o Chunk_Read_Steps
    \o Chunk_Write_Steps \o <<Write("cursor"), Unlock("Buffer")>>

\* Delete across chunks.
Buffer_Delete_Steps ==
  <<Lock("Buffer")>> \o GetChunk_Steps \o Chunk_Read_Steps
    \o GetChunk_Steps \o Chunk_Read_Steps \o Chunk_Write_Steps
    \o <<Write("chunks"), Read("cursor"), Write("cursor"), Unlock("Buffer")>>

\* PositionToLineCol over two chunks.
Buffer_PositionToLineCol_Steps ==
  GetChunk_Steps \o Chunk_Read_Steps \o GetChunk_Steps \o Chunk_Read_Steps

Buffer_GetCursor_Steps == <<Read("cursor")>>

Buffer_GetTextRange_Steps ==
  <<RLock("Buffer")>> \o GetChunk_Steps \o Chunk_Read_Steps \o <<RUnlock("Buffer")>>

Buffer_GetCursorPosition_Steps == <<Read("cursor")>> \o Buffer_GetTextRange_Steps

\* Save with one dirty chunk.
Buffer_Save_Steps ==
  <<Lock("Buffer"), Read("chunks")>> \o Chunk_Read_Steps \o <<Unlock("Buffer")>>

Buffer_Close_Steps ==
  <<Lock("Buffer")>> \o Buffer_Save_Steps \o <<Write("chunks"), Unlock("Buffer")>>

\* movement.go; the last line is the one whose end is TotalGraphemes().
Buffer_MoveSelectionToLineCol_Steps ==
  <<Lock("Buffer"), RLock("LineIndex"), Read("lineCache")>> \o Rope_TotalGraphemes_Steps
    \o <<Write("selection"), RUnlock("LineIndex"), Unlock("Buffer")>>

Buffer_MoveSelections_Steps ==
  <<Lock("Buffer"), Read("selection")>> \o Rope_TotalGraphemes_Steps
    \o <<Write("selection"), Unlock("Buffer")>>

\* The editor.
Editor_GetMode_Steps == <<Read("mode")>>
Editor_SetMode_Steps == <<Write("mode")>>

\* FileName, FileType and FilePath alike: the nil test, then the call.
Editor_FilePath_Steps == <<Read("current"), Read("current")>>

Editor_OpenFile_Steps ==
  <<Lock("Editor"), Read("buffers"), Write("buffers"), Write("current"), Unlock("Editor")>>

Editor_SwitchBuffer_Steps ==
  <<Lock("Editor"), Read("buffers"), Write("current"), Unlock("Editor")>>

Editor_GetBufferList_Steps == <<RLock("Editor"), Read("buffers"), RUnlock("Editor")>>

Editor_InsertText_Steps ==
  <<Lock("Editor"), Read("current"), Read("mode")>> \o Buffer_Insert_Steps
    \o <<Unlock("Editor")>>

Editor_LineCol_Steps ==
  <<RLock("Editor"), Read("current")>> \o Buffer_PositionToLineCol_Steps
    \o <<RUnlock("Editor")>>

Editor_CloseCurrentBuffer_Steps ==
  <<Lock("Editor"), Read("current")>> \o Buffer_Close_Steps
    \o <<Read("buffers"), Write("buffers"), Write("current"), Unlock("Editor")>>

Programs ==
  [SetMode |-> Editor_SetMode_Steps,
   GetMode |-> Editor_GetMode_Steps,
   FilePath |-> Editor_FilePath_Steps,
   OpenFile |-> Editor_OpenFile_Steps,
   SwitchBuffer |-> Editor_SwitchBuffer_Steps,
   GetBufferList |-> Editor_GetBufferList_Steps,
   InsertText |-> Editor_InsertText_Steps,
   LineCol |-> Editor_LineCol_Steps,
   CloseCurrentBuffer |-> Editor_CloseCurrentBuffer_Steps,
   BufferInsert |-> Buffer_Insert_Steps,
   BufferDelete |-> Buffer_Delete_Steps,
   BufferPositionToLineCol |-> Buffer_PositionToLineCol_Steps,
   BufferGetCursor |-> Buffer_GetCursor_Steps,
   BufferGetTextRange |-> Buffer_GetTextRange_Steps,
   BufferGetCursorPosition |-> Buffer_GetCursorPosition_Steps,
   BufferSave |-> Buffer_Save_Steps,
   BufferClose |-> Buffer_Close_Steps,
   BufferMoveSelectionToLineCol |-> Buffer_MoveSelectionToLineCol_Steps,
   BufferMoveSelections |-> Buffer_MoveSelections_Steps,
   RopeInsert |-> Rope_Insert_Steps,
   RopeTotalGraphemes |-> Rope_TotalGraphemes_Steps]

ProgramNames == DOMAIN Programs

IsMutator(p) == \E k \in DOMAIN Programs[p] : Programs[p][k][1] = "Write"

\* sync.RWMutex: the writer (0 when none) and the readers.
Unlocked == [w |-> 0, r |-> {}]
\* A thread: the operation it runs ("none" before its first call), the
\* index of its next step, whether the operation has returned, the number
\* of its calls, the versions the operation has read, the fields of which
\* it read two versions, the versions when it was called, its edit number.
NoCall == [prog |-> "none", pc |-> 1, done |-> TRUE, calls |-> 0,
           obs |-> [f \in {} |-> 0], torn |-> {},
           start |-> [f \in Fields |-> 0], edit |-> 0]
\* A field: the number of the edit that wrote it last, the one before, and
\* the locks the last writer held exclusively.
FirstValue == [ver |-> 0, prev |-> 0, wl |-> {}]

VARIABLES root, last, it, itSrc, itOut, itCalls, editor, disk, elast, edits,
          buf, blast, bedits, cbuf, clast, cedits,
          heap, hroot, hit, hout, hsnap, hlast, hedits,
          viewport, vlast,
          mu, th, fld, nedits, committed

ropeVars == <<root, last>>
iterVars == <<it, itSrc, itOut, itCalls>>
edVars == <<editor, disk, elast, edits>>
bufVars == <<buf, blast, bedits>>
chunkVars == <<cbuf, clast, cedits>>
heapVars == <<heap, hroot, hit, hout, hsnap, hlast, hedits>>
viewVars == <<viewport, vlast>>
threadVars == <<mu, th, fld, nedits, committed>>
moreVars == <<heapVars, viewVars, threadVars>>
vars == <<ropeVars, iterVars, edVars, bufVars, chunkVars, moreVars>>

InitialTexts == SeqsUpTo(RopeAlphabet, MaxLen)
InsertTexts == SeqsUpTo(RopeAlphabet, MaxInsertLen)
ReplaceTexts == SeqsUpTo(RopeAlphabet, MaxReplaceLen)

Call(op, a, b, s, err, str, before) ==
  [op |-> op, a |-> a, b |-> b, s |-> s, err |-> err, str |-> str, before |-> before]

Idle == Call("none", 0, 0, << >>, "nil", << >>, Nil)

NoIterator == [live |-> FALSE, current |-> Nil, stack |-> << >>,
               graphemes |-> NoGraphemes, position |-> 0]
NoCalls == [exhausted |-> 0, revived |-> FALSE]

IterIdle ==
  /\ it = NoIterator
  /\ itSrc = Nil
  /\ itOut = << >>
  /\ itCalls = NoCalls

\* Argument values of the calls: every index from -1 to one past the end.
Indices(r) == -1 .. (totalGraphemes(r) + 1)

\* The files on disk when the editor starts: a.txt, b.txt and c.txt exist,
\* none.txt does not.
InitialDisk ==
  ("/w/a.txt" :> <<"a">>) @@ ("/w/b.txt" :> << >>) @@ ("/w/c.txt" :> << >>)

EdCall(op, arg, r, before, beforeDisk) ==
  [op |-> op, arg |-> arg, err |-> r.err, res |-> r.res,
   before |-> before, beforeDisk |-> beforeDisk]

EdIdle == [op |-> "none", arg |-> << >>, err |-> "nil", res |-> << >>,
           before |-> NewEditor, beforeDisk |-> << >>]

EditorIdle ==
  /\ editor = NewEditor
  /\ disk = InitialDisk
  /\ elast = EdIdle
  /\ edits = 0

BufCall(op, arg, err, res, before) ==
  [op |-> op, arg |-> arg, err |-> err, res |-> res, before |-> before]

NoBuffer == NewBuffer("/w/a.txt", << >>)

BufIdle == BufCall("none", << >>, "nil", << >>, NoBuffer)

BufferIdle ==
  /\ buf = NoBuffer
  /\ blast = BufIdle
  /\ bedits = 0

NoChunkBuffer == ChunkBuffer_NewBuffer(<< >>)

ChunkIdle == BufCall("none", << >>, "nil", << >>, NoChunkBuffer)

ChunkBufferIdle ==
  /\ cbuf = NoChunkBuffer
  /\ clast = ChunkIdle
  /\ cedits = 0

HeapLastIdle == [op |-> "none", a |-> 0, b |-> 0, s |-> << >>, err |-> "nil"]

HeapIdle ==
  /\ heap = << >>
  /\ hroot = 0
  /\ hit = [live |-> FALSE, done |-> FALSE, mutations |-> 0] @@ HeapNewIterator(0)
  /\ hout = << >>
  /\ hsnap = << >>
  /\ hlast = HeapLastIdle
  /\ hedits = 0

ViewCall(op, a, b, res, before) ==
  [op |-> op, a |-> a, b |-> b, res |-> res, before |-> before]

ViewIdle ==
  /\ viewport = NewViewport(0)
  /\ vlast = ViewCall("none", 0, 0, << >>, NewViewport(0))

ThreadIdle ==
  /\ mu = [l \in Locks |-> Unlocked]
  /\ th = [t \in Threads |-> NoCall]
  /\ fld = [f \in Fields |-> FirstValue]
  /\ nedits = 0
  /\ committed = {[f \in Fields |-> 0]}

MoreIdle == HeapIdle /\ ViewIdle /\ ThreadIdle

(***************************************************************************)
(* The rope under a single client that calls its operations in any order,  *)
(* taking each result before the next call.  The client creates an         *)
(* iterator, consumes it with Next and abandons it before it mutates the   *)
(* rope again.                                                             *)
(***************************************************************************)
InitRope ==
  /\ \E s \in InitialTexts :
       /\ root = NewRope(s)
       /\ last = Call("NewRope", 0, 0, s, "nil", << >>, Nil)
  /\ IterIdle
  /\ EditorIdle
  /\ BufferIdle
  /\ ChunkBufferIdle
  /\ MoreIdle

Return ==
  /\ last.op # "none"
  /\ last' = Idle
  /\ UNCHANGED <<root, iterVars, edVars, bufVars, chunkVars, moreVars>>

Insert ==
  \E index \in Indices(root), s \in InsertTexts :
    /\ last = Idle /\ ~it.live
    /\ Len(Rope_String(root)) + Len(s) <= MaxLen
    /\ LET r == Rope_Insert(root, index, s)
       IN  /\ root' = r.root
           /\ last' = Call("Insert", index, 0, s, r.err, << >>, root)
    /\ UNCHANGED <<iterVars, edVars, bufVars, chunkVars, moreVars>>

Delete ==
  \E start \in Indices(root), end \in Indices(root) :
    /\ last = Idle /\ ~it.live
    /\ LET r == Rope_Delete(root, start, end)
       IN  /\ root' = r.root
           /\ last' = Call("Delete", start, end, << >>, r.err, << >>, root)
    /\ UNCHANGED <<iterVars, edVars, bufVars, chunkVars, moreVars>>

Replace ==
  \E start \in Indices(root), end \in Indices(root), s \in ReplaceTexts :
    /\ last = Idle /\ ~it.live
    /\ LET r == Rope_Replace(root, start, end, s)
       IN  /\ Len(Rope_String(r.root)) <= MaxLen
           /\ root' = r.root
           /\ last' = Call("Replace", start, end, s, r.err, << >>, root)
    /\ UNCHANGED <<iterVars, edVars, bufVars, chunkVars, moreVars>>

Substring ==
  \E start \in Indices(root), end \in Indices(root) :
    /\ last = Idle /\ ~it.live
    /\ LET r == Rope_Substring(root, start, end)
       IN  last' = Call("Substring", start, end, << >>, r.err, r.str, root)
    /\ UNCHANGED <<root, iterVars, edVars, bufVars, chunkVars, moreVars>>

GraphemeAt ==
  \E index \in Indices(root) :
    /\ last = Idle /\ ~it.live
    /\ LET r == Rope_GraphemeAt(root, index)
       IN  last' = Call("GraphemeAt", index, 0, << >>, r.err, r.str, root)
    /\ UNCHANGED <<root, iterVars, edVars, bufVars, chunkVars, moreVars>>

\* The client's round trip of section 8: s = Substring(a, b), Delete(a, b),
\* Insert(a, s).  The text read is recorded in s, the final error in err.
RoundTrip ==
  \E start \in Indices(root), end \in Indices(root) :
    /\ last = Idle /\ ~it.live
    /\ LET sub == Rope_Substring(root, start, end)
           del == Rope_Delete(root, start, end)
           ins == Rope_Insert(del.root, start, sub.str)
       IN  /\ sub.err = "nil"
           /\ del.err = "nil"
           /\ root' = ins.root
           /\ last' = Call("RoundTrip", start, end, sub.str, ins.err, << >>, root)
    /\ UNCHANGED <<iterVars, edVars, bufVars, chunkVars, moreVars>>

NewIterator ==
  /\ last = Idle /\ ~it.live
  /\ it' = [live |-> TRUE] @@ Rope_NewIterator(root)
  /\ itSrc' = root
  /\ itOut' = << >>
  /\ itCalls' = NoCalls
  /\ UNCHANGED <<ropeVars, edVars, bufVars, chunkVars, moreVars>>

\* One call of Next on the live iterator.  Calls after the first exhausted
\* one are counted up to MaxExtraNext.
IterNext ==
  /\ last = Idle /\ it.live
  /\ itCalls.exhausted <= MaxExtraNext
  /\ LET n == RopeIterator_Next([current |-> it.current, stack |-> it.stack,
                                 graphemes |-> it.graphemes,
                                 position |-> it.position])
     IN  /\ it' = [live |-> TRUE] @@ n.it
         /\ itOut' = IF n.ok THEN Append(itOut, n.str) ELSE itOut
         /\ itCalls' = [exhausted |-> IF n.ok THEN itCalls.exhausted
                                              ELSE itCalls.exhausted + 1,
                        revived   |-> itCalls.revived
                                      \/ (n.ok /\ itCalls.exhausted > 0)]
  /\ UNCHANGED <<ropeVars, itSrc, edVars, bufVars, chunkVars, moreVars>>

Abandon ==
  /\ last = Idle /\ it.live
  /\ it' = NoIterator
  /\ itSrc' = Nil
  /\ itOut' = << >>
  /\ itCalls' = NoCalls
  /\ UNCHANGED <<ropeVars, edVars, bufVars, chunkVars, moreVars>>

NextRope ==
  \/ Return
  \/ Insert
  \/ Delete
  \/ Replace
  \/ Substring
  \/ GraphemeAt
  \/ RoundTrip
  \/ NewIterator
  \/ IterNext
  \/ Abandon

SpecRope == InitRope /\ [][NextRope]_vars

(***************************************************************************)
(* Properties of the rope.                                                 *)
(***************************************************************************)
RECURSIVE leafClusters(_)
leafClusters(leaves) ==
  IF leaves = << >> THEN << >>
  ELSE Graphemes(Head(leaves).data) \o leafClusters(Tail(leaves))

\* The clusters of the document in the rope's index space: cluster k of the
\* rope is the k-th cluster met when the leaves are segmented left to right.
RopeClusters(r) == leafClusters(flatten(r))

Take(cs, n) == SubSeq(cs, 1, n)
Drop(cs, n) == SubSeq(cs, n + 1, Len(cs))

LeafCount(r) == Len(flatten(r))

\* The stored count agrees with the segmentation of the whole document.
Consistent(r) == countGraphemes(Rope_String(r)) = Rope_TotalGraphemes(r)

C2_ValidateFirst ==
  LET N == Rope_TotalGraphemes(last.before)
  IN  /\ last.op = "Insert" =>
           /\ (last.a < 0 \/ last.a > N) => last.err = "ErrOutOfBounds"
           /\ (last.a >= 0 /\ last.a <= N) => last.err = "nil"
      /\ last.op = "Delete" =>
           /\ (last.a < 0 \/ last.b > N \/ last.a > last.b) => last.err = "ErrInvalidRange"
           /\ (last.a >= 0 /\ last.b <= N /\ last.a <= last.b) => last.err = "nil"
      /\ (last.op \in {"Insert", "Delete"} /\ last.err # "nil") =>
           /\ Rope_String(root) = Rope_String(last.before)
           /\ Rope_TotalGraphemes(root) = N
           /\ root = last.before

\* A Delete with start > end, both inside a non-empty document, has failed.
C2_Witness ==
  /\ last.op = "Delete" /\ last.err = "ErrInvalidRange"
  /\ last.a > last.b /\ last.b >= 0
  /\ last.a <= Rope_TotalGraphemes(last.before)
  /\ LeafCount(root) >= 2

SingleLeafRope(s) == buildBalancedTree(splitIntoLeaves(s, Len(s) + 1))

\* The range [a, b) starts inside one leaf and ends inside another.
CrossesLeaves(r, a, b) ==
  /\ a < b
  /\ ~IsNil(r) /\ ~IsLeaf(r)
  /\ \E k \in 1..(LeafCount(r) - 1) :
       LET before == totalGraphemes(buildBalancedTree(Take(flatten(r), k)))
       IN  a < before /\ before < b

\* C4 (first half): Substring(a, b) with 0 <= a <= b <= N returns the
\* clusters a..b-1 of the document, in order, and does not modify the rope.
C4_SubstringExact ==
  (last.op = "Substring" /\ 0 <= last.a /\ last.a <= last.b
     /\ last.b <= Rope_TotalGraphemes(last.before)) =>
    /\ last.err = "nil"
    /\ last.str = Flat(SubSeq(RopeClusters(last.before), last.a + 1, last.b))
    /\ root = last.before

\* C4: as C4_SubstringExact, and the result for a range that starts inside
\* one leaf and ends inside another equals the result on a single-leaf rope
\* with the same content.
C4_SubstringAnyShape ==
  /\ C4_SubstringExact
  /\ (last.op = "Substring" /\ last.err = "nil"
        /\ CrossesLeaves(last.before, last.a, last.b)) =>
       LET single == Rope_Substring(SingleLeafRope(Rope_String(last.before)),
                                    last.a, last.b)
       IN  single.err = "nil" /\ single.str = last.str

\* C4 on the ropes whose stored count agrees with the segmentation of the
\* whole document.
C4_SubstringAnyShapeConsistent ==
  Consistent(last.before) => C4_SubstringAnyShape

\* C5: re-segmenting String() yields exactly TotalGraphemes() clusters in
\* every rope reachable by successful Insert/Delete/Replace calls.
C5_CountMatchesSegmentation == Consistent(root)

\* C6: s = Substring(a, b), Delete(a, b), Insert(a, s) with 0 <= a <= b <= N
\* yields a rope with the original String() and TotalGraphemes().
C6_RoundTripRestores ==
  last.op = "RoundTrip" =>
    /\ last.err = "nil"
    /\ Rope_String(root) = Rope_String(last.before)
    /\ Rope_TotalGraphemes(root) = Rope_TotalGraphemes(last.before)

\* C6 on the ropes whose stored count agrees with the segmentation of the
\* whole document.
C6_RoundTripRestoresConsistent ==
  Consistent(last.before) => C6_RoundTripRestores

IsPrefix(p, s) == Len(p) <= Len(s) /\ SubSeq(s, 1, Len(p)) = p

\* C7: Next on a fresh iterator yields the document's TotalGraphemes()
\* clusters left to right, each once, then reports exhaustion, and every
\* later Next reports exhaustion too; an empty rope is exhausted at once.
C7_IteratorYieldsAll ==
  it.live =>
    LET doc == RopeClusters(itSrc)
    IN  /\ IsPrefix(itOut, doc)
        /\ \A k \in 1..Len(itOut) : Rope_GraphemeAt(itSrc, k - 1) = [str |-> itOut[k], err |-> "nil"]
        /\ it.position = Len(itOut)
        /\ itCalls.exhausted > 0 =>
             /\ itOut = doc
             /\ Len(itOut) = Rope_TotalGraphemes(itSrc)
             /\ Flat(itOut) = Rope_String(itSrc)
        /\ ~itCalls.revived
        /\ (IsNil(itSrc) /\ itCalls.exhausted > 0) => itOut = << >>

\* An iterator over a rope of several leaves has been consumed and Next has
\* been called again after it first reported exhaustion.
C7_Witness ==
  /\ it.live /\ itCalls.exhausted >= 2
  /\ LeafCount(itSrc) >= 2
  /\ Len(itOut) >= 3

(***************************************************************************)
(* A client that mutates the rope while it consumes an iterator: a         *)
(* mutation may come before, between and after the calls of Next.          *)
(***************************************************************************)
HeapAlphabet == {"a", "r"}
HeapTexts == SeqsUpTo(HeapAlphabet, MaxHeapLen)
HeapInsertTexts == SeqsUpTo(HeapAlphabet, 1)
\* The calls are those that succeed: the failing ones return before Split.
HeapIndices == 0 .. HeapTotalGraphemes(heap, hroot)
HeapDoc == Rope_String(TreeAt(heap, hroot))

InitSnapshot ==
  /\ root = Nil
  /\ last = Idle
  /\ IterIdle
  /\ EditorIdle
  /\ BufferIdle
  /\ ChunkBufferIdle
  /\ \E s \in HeapTexts :
       /\ heap = HeapNewRope(<< >>, s).h
       /\ hroot = HeapNewRope(<< >>, s).a
  /\ hit = [live |-> FALSE, done |-> FALSE, mutations |-> 0] @@ HeapNewIterator(0)
  /\ hout = << >>
  /\ hsnap = << >>
  /\ hlast = HeapLastIdle
  /\ hedits = 0
  /\ ViewIdle
  /\ ThreadIdle

\* A mutator returned r.
HeapMutate(op, a, b, s, r) ==
  /\ Len(Rope_String(TreeAt(r.h, r.root))) <= MaxHeapLen
  /\ heap' = r.h
  /\ hroot' = r.root
  /\ hlast' = [op |-> op, a |-> a, b |-> b, s |-> s, err |-> r.err]
  /\ hedits' = IF r.err = "nil" THEN hedits + 1 ELSE hedits
  /\ hit' = IF hit.live /\ r.err = "nil" THEN [hit EXCEPT !.mutations = @ + 1] ELSE hit
  /\ UNCHANGED <<hout, hsnap, ropeVars, iterVars, edVars, bufVars, chunkVars, viewVars, threadVars>>

HeapInsertCall ==
  /\ hedits < MaxHeapEdits
  /\ \E index \in HeapIndices, s \in HeapInsertTexts :
    \E r \in {Heap_Insert(heap, hroot, index, s)} : HeapMutate("Insert", index, 0, s, r)

HeapDeleteCall ==
  /\ hedits < MaxHeapEdits
  /\ \E start \in HeapIndices, end \in HeapIndices :
    start <= end /\ \E r \in {Heap_Delete(heap, hroot, start, end)} :
      HeapMutate("Delete", start, end, << >>, r)

HeapReplaceCall ==
  /\ hedits < MaxHeapEdits
  /\ \E start \in HeapIndices, end \in HeapIndices, s \in HeapInsertTexts :
    start <= end /\ \E r \in {Heap_Replace(heap, hroot, start, end, s)} :
      HeapMutate("Replace", start, end, s, r)

HeapNewIteratorCall ==
  /\ ~hit.live
  /\ hit' = [live |-> TRUE, done |-> FALSE, mutations |-> 0] @@ HeapNewIterator(hroot)
  /\ hsnap' = RopeClusters(TreeAt(heap, hroot))
  /\ hout' = << >>
  /\ UNCHANGED <<heap, hroot, hlast, hedits, ropeVars, iterVars, edVars, bufVars, chunkVars, viewVars, threadVars>>

HeapNextCall ==
  /\ hit.live /\ ~hit.done
  /\ \E n \in {HeapNext(heap, [current |-> hit.current, stack |-> hit.stack,
                               graphemes |-> hit.graphemes, position |-> hit.position])} :
         /\ hit' = [live |-> TRUE, done |-> ~n.ok, mutations |-> hit.mutations] @@ n.it
         /\ hout' = IF n.ok THEN Append(hout, n.str) ELSE hout
  /\ UNCHANGED <<heap, hroot, hsnap, hlast, hedits, ropeVars, iterVars, edVars, bufVars, chunkVars, viewVars, threadVars>>

NextSnapshot ==
  \/ HeapInsertCall
  \/ HeapDeleteCall
  \/ HeapReplaceCall
  \/ HeapNewIteratorCall
  \/ HeapNextCall

SpecSnapshot == InitSnapshot /\ [][NextSnapshot]_vars

(***************************************************************************)
(* The viewport under the document view, which calls Update with the       *)
(* cursor's line and the height of the view and then VisibleRange with the *)
(* height and the number of lines, for a cursor that moves freely in a     *)
(* document of MaxLine + 1 lines and a view that is resized freely.        *)
(***************************************************************************)
Paddings == 0 .. MaxPadding
Lines == 0 .. MaxLine
Heights == 1 .. MaxHeight
TotalLines == MaxLine + 1

InitViewport ==
  /\ root = Nil
  /\ last = Idle
  /\ IterIdle
  /\ EditorIdle
  /\ BufferIdle
  /\ ChunkBufferIdle
  /\ HeapIdle
  /\ ThreadIdle
  /\ \E padding \in Paddings : viewport = NewViewport(padding)
  /\ vlast = ViewCall("none", 0, 0, << >>, NewViewport(0))

ViewportUpdate ==
  \E currLine \in Lines, viewHeight \in Heights :
    /\ viewport' = Viewport_Update(viewport, currLine, viewHeight)
    /\ vlast' = ViewCall("Update", currLine, viewHeight, << >>, viewport)
    /\ UNCHANGED <<ropeVars, iterVars, edVars, bufVars, chunkVars, heapVars, threadVars>>

\* VisibleRange right after Update, with the same height.
ViewportVisibleRange ==
  /\ vlast.op = "Update"
  /\ vlast' = ViewCall("VisibleRange", vlast.a, vlast.b,
                       Viewport_VisibleRange(viewport, vlast.b, TotalLines), vlast.before)
  /\ UNCHANGED <<viewport, ropeVars, iterVars, edVars, bufVars, chunkVars, heapVars, threadVars>>

NextViewport ==
  \/ ViewportUpdate
  \/ ViewportVisibleRange

SpecViewport == InitViewport /\ [][NextViewport]_vars

(***************************************************************************)
(* Two threads, each calling operations of the editor, the buffer and the  *)
(* rope, one step at a time in any interleaving.                           *)
(***************************************************************************)
Running(t) == ~th[t].done
NextStep(t) == Programs[th[t].prog][th[t].pc]
AtStep(t, kind) ==
  /\ Running(t)
  /\ th[t].pc <= Len(Programs[th[t].prog])
  /\ NextStep(t)[1] = kind
Holds(t, l) == mu[l].w = t \/ t \in mu[l].r
HeldBy(t) == {l \in Locks : Holds(t, l)}
Versions == [f \in Fields |-> fld[f].ver]
Advance(t) == [th EXCEPT ![t].pc = @ + 1]
OtherVars == <<ropeVars, iterVars, edVars, bufVars, chunkVars, heapVars, viewVars>>

InitThreads ==
  /\ root = Nil
  /\ last = Idle
  /\ IterIdle
  /\ EditorIdle
  /\ BufferIdle
  /\ ChunkBufferIdle
  /\ HeapIdle
  /\ ViewIdle
  /\ ThreadIdle

ThreadCall(t) ==
  \E p \in ProgramNames :
    /\ th[t].done
    /\ th[t].calls < MaxThreadCalls
    /\ th' = [th EXCEPT ![t] = [prog |-> p, pc |-> 1, done |-> FALSE, calls |-> @.calls + 1,
                               obs |-> [f \in {} |-> 0], torn |-> {},
                               start |-> Versions,
                               edit |-> IF IsMutator(p) THEN nedits + 1 ELSE 0]]
    /\ nedits' = IF IsMutator(p) THEN nedits + 1 ELSE nedits
    /\ UNCHANGED <<mu, fld, committed, OtherVars>>

\* Lock waits until there is no writer and no reader, the caller included.
ThreadLock(t) ==
  /\ AtStep(t, "Lock")
  /\ mu[NextStep(t)[2]] = Unlocked
  /\ mu' = [mu EXCEPT ![NextStep(t)[2]].w = t]
  /\ th' = Advance(t)
  /\ UNCHANGED <<fld, nedits, committed, OtherVars>>

\* RLock waits while there is a writer or another thread is waiting in Lock.
ThreadRLock(t) ==
  /\ AtStep(t, "RLock")
  /\ mu[NextStep(t)[2]].w = 0
  /\ \A u \in Threads \ {t} : ~(AtStep(u, "Lock") /\ NextStep(u)[2] = NextStep(t)[2]
                                 /\ mu[NextStep(t)[2]].r # {})
  /\ mu' = [mu EXCEPT ![NextStep(t)[2]].r = @ \cup {t}]
  /\ th' = Advance(t)
  /\ UNCHANGED <<fld, nedits, committed, OtherVars>>

ThreadUnlock(t) ==
  /\ AtStep(t, "Unlock")
  /\ mu' = [mu EXCEPT ![NextStep(t)[2]].w = 0]
  /\ th' = Advance(t)
  /\ UNCHANGED <<fld, nedits, committed, OtherVars>>

ThreadRUnlock(t) ==
  /\ AtStep(t, "RUnlock")
  /\ mu' = [mu EXCEPT ![NextStep(t)[2]].r = @ \ {t}]
  /\ th' = Advance(t)
  /\ UNCHANGED <<fld, nedits, committed, OtherVars>>

\* A read that no lock orders after the last write of the field may return
\* the value before that write.
ThreadRead(t) ==
  /\ AtStep(t, "Read")
  /\ LET f == NextStep(t)[2]
     IN  \E v \in (IF HeldBy(t) \cap fld[f].wl # {} THEN {fld[f].ver}
                                                ELSE {fld[f].ver, fld[f].prev}) :
           th' = [th EXCEPT ![t].pc = @ + 1,
                            ![t].obs = (f :> v) @@ @,
                            ![t].torn = IF f \in DOMAIN th[t].obs /\ th[t].obs[f] # v
                                        THEN @ \cup {f} ELSE @]
  /\ UNCHANGED <<mu, fld, nedits, committed, OtherVars>>

ThreadWrite(t) ==
  /\ AtStep(t, "Write")
  /\ fld' = [fld EXCEPT ![NextStep(t)[2]] =
               [ver |-> th[t].edit,
                prev |-> IF @.ver = th[t].edit THEN @.prev ELSE @.ver,
                wl |-> {l \in Locks : mu[l].w = t}]]
  /\ th' = Advance(t)
  /\ UNCHANGED <<mu, nedits, committed, OtherVars>>

\* The operation returns; the state a mutator leaves is a whole state of
\* the buffer when no other mutator is under way.
ThreadReturn(t) ==
  /\ Running(t)
  /\ th[t].pc > Len(Programs[th[t].prog])
  /\ th' = [th EXCEPT ![t].done = TRUE]
  /\ committed' = IF IsMutator(th[t].prog)
                     /\ \A u \in Threads \ {t} : ~(Running(u) /\ IsMutator(th[u].prog))
                  THEN committed \cup {Versions}
                  ELSE committed
  /\ UNCHANGED <<mu, fld, nedits, OtherVars>>

ThreadStep(t) ==
  \/ ThreadLock(t)
  \/ ThreadRLock(t)
  \/ ThreadUnlock(t)
  \/ ThreadRUnlock(t)
  \/ ThreadRead(t)
  \/ ThreadWrite(t)
  \/ ThreadReturn(t)

NextThreads == \E t \in Threads : ThreadCall(t) \/ ThreadStep(t)

SpecThreads == InitThreads /\ [][NextThreads]_vars

\* The scheduler runs every thread that can take a step.
SpecThreadsFair == SpecThreads /\ \A t \in Threads : WF_vars(ThreadStep(t))

(***************************************************************************)
(* The editor under a single client (the key-event loop) that calls its    *)
(* operations in any order, taking each result before the next call.  A    *)
(* call that panics ends the process: nothing follows it.                  *)
(***************************************************************************)
EditorAlphabet == {"a", "\n"}
EditorTexts == SeqsUpTo(EditorAlphabet, MaxEdInsertLen) \ {<< >>}
Modes == {"Normal", "Insert"}
Offsets == {-1, 1}
Positions == -1 .. (MaxEdLen + 1)
LineNums == -1 .. MaxEdLen

InitEditor ==
  /\ root = Nil
  /\ last = Idle
  /\ IterIdle
  /\ EditorIdle
  /\ BufferIdle
  /\ ChunkBufferIdle
  /\ MoreIdle

EdReady == elast.op = "none"

\* The call op(arg) returned r.
EdStep(op, arg, r) ==
  /\ editor' = r.e
  /\ elast' = EdCall(op, arg, r, editor, disk)
  /\ UNCHANGED <<disk, edits, ropeVars, iterVars, bufVars, chunkVars, moreVars>>

\* The same for an edit: the client makes at most MaxEdits of them.
EdEditStep(op, arg, r) ==
  /\ r.err = "nil" => edits < MaxEdits
  /\ editor' = r.e
  /\ elast' = EdCall(op, arg, r, editor, disk)
  /\ edits' = IF r.err = "nil" THEN edits + 1 ELSE edits
  /\ UNCHANGED <<disk, ropeVars, iterVars, bufVars, chunkVars, moreVars>>

\* The same for the operations that may write the file.
EdDiskStep(op, arg, r) ==
  /\ editor' = r.e
  /\ disk' = r.disk
  /\ elast' = EdCall(op, arg, r, editor, disk)
  /\ UNCHANGED <<edits, ropeVars, iterVars, bufVars, chunkVars, moreVars>>

EdReturn ==
  /\ elast.op # "none"
  /\ elast.err # "panic"
  /\ elast' = EdIdle
  /\ UNCHANGED <<editor, disk, edits, ropeVars, iterVars, bufVars, chunkVars, moreVars>>

OpenFile ==
  \E filePath \in Paths, cwdOk \in BOOLEAN :
    /\ EdReady
    /\ EdStep("OpenFile", <<filePath>>, Editor_OpenFile(editor, filePath, cwdOk, disk))

SwitchBuffer ==
  \E filePath \in Paths, cwdOk \in BOOLEAN :
    /\ EdReady
    /\ EdStep("SwitchBuffer", <<filePath>>, Editor_SwitchBuffer(editor, filePath, cwdOk))

GetBufferList ==
  /\ EdReady
  /\ EdStep("GetBufferList", << >>, Editor_GetBufferList(editor))

GetMode ==
  /\ EdReady
  /\ EdStep("GetMode", << >>, Editor_GetMode(editor))

SetMode ==
  \E m \in Modes :
    /\ EdReady
    /\ EdStep("SetMode", <<m>>, Editor_SetMode(editor, m))

FileName ==
  /\ EdReady
  /\ EdStep("FileName", << >>, Editor_FileName(editor))

FileType ==
  /\ EdReady
  /\ EdStep("FileType", << >>, Editor_FileType(editor))

FilePath ==
  /\ EdReady
  /\ EdStep("FilePath", << >>, Editor_FilePath(editor))

\* The document is kept within MaxEdLen clusters.
InsertText ==
  \E text \in EditorTexts :
    /\ EdReady
    /\ HasCurrent(editor) /\ editor.mode = "Insert"
         => Rope_TotalGraphemes(Cur(editor).document) + Len(text) <= MaxEdLen
    /\ EdEditStep("InsertText", <<text>>, Editor_InsertText(editor, text))

DeleteSelection ==
  /\ EdReady
  /\ EdEditStep("DeleteSelection", << >>, Editor_DeleteSelection(editor))

DeleteText ==
  \E length \in Offsets :
    /\ EdReady
    /\ EdEditStep("DeleteText", <<length>>, Editor_DeleteText(editor, length))

GetCurrentPosition ==
  /\ EdReady
  /\ EdStep("GetCurrentPosition", << >>, Editor_GetCurrentPosition(editor))

LineCol ==
  \E pos \in Positions :
    /\ EdReady
    /\ EdStep("LineCol", <<pos>>, Editor_LineCol(editor, pos))

Selection ==
  /\ EdReady
  /\ EdStep("Selection", << >>, Editor_Selection(editor))

MoveCursorHorizontal ==
  \E offset \in Offsets, extend \in BOOLEAN :
    /\ EdReady
    /\ EdStep("MoveCursorHorizontal", <<offset, extend>>,
              Editor_MoveCursorHorizontal(editor, offset, extend))

JumpFromCursor ==
  \E offset \in Offsets, extend \in BOOLEAN :
    /\ EdReady
    /\ EdStep("JumpFromCursor", <<offset, extend>>,
              Editor_JumpFromCursor(editor, offset, extend))

JumpToLine ==
  \E lineNum \in LineNums, extend \in BOOLEAN :
    /\ EdReady
    /\ EdStep("JumpToLine", <<lineNum, extend>>,
              Editor_JumpToLine(editor, lineNum, extend))

JumpToTop ==
  \E extend \in BOOLEAN :
    /\ EdReady
    /\ EdStep("JumpToTop", <<extend>>, Editor_JumpToTop(editor, extend))

JumpToBottom ==
  \E extend \in BOOLEAN :
    /\ EdReady
    /\ EdStep("JumpToBottom", <<extend>>, Editor_JumpToBottom(editor, extend))

MoveToNextWord ==
  \E extend \in BOOLEAN :
    /\ EdReady
    /\ EdStep("MoveToNextWord", <<extend>>, Editor_MoveToNextWord(editor, extend))

MoveToPrevWord ==
  \E extend \in BOOLEAN :
    /\ EdReady
    /\ EdStep("MoveToPrevWord", <<extend>>, Editor_MoveToPrevWord(editor, extend))

SaveCurrentBuffer ==
  \E ioOk \in BOOLEAN :
    /\ EdReady
    /\ EdDiskStep("SaveCurrentBuffer", << >>,
                  Editor_SaveCurrentBuffer(editor, ioOk, disk))

CloseCurrentBuffer ==
  \E ioOk \in BOOLEAN, pick \in AbsPaths :
    /\ EdReady
    /\ pick \in DOMAIN editor.buffers \/ pick = "/w/none.txt"
    /\ EdDiskStep("CloseCurrentBuffer", << >>,
                  Editor_CloseCurrentBuffer(editor, ioOk, pick, disk))

GetLine ==
  \E lineNum \in LineNums :
    /\ EdReady
    /\ EdStep("GetLine", <<lineNum>>, Editor_GetLine(editor, lineNum))

GetLineCount ==
  /\ EdReady
  /\ EdStep("GetLineCount", << >>, Editor_GetLineCount(editor))

NextEditor ==
  \/ EdReturn
  \/ OpenFile
  \/ SwitchBuffer
  \/ GetBufferList
  \/ GetMode
  \/ SetMode
  \/ FileName
  \/ FileType
  \/ FilePath
  \/ InsertText
  \/ DeleteSelection
  \/ DeleteText
  \/ GetCurrentPosition
  \/ LineCol
  \/ Selection
  \/ MoveCursorHorizontal
  \/ JumpFromCursor
  \/ JumpToLine
  \/ JumpToTop
  \/ JumpToBottom
  \/ MoveToNextWord
  \/ MoveToPrevWord
  \/ SaveCurrentBuffer
  \/ CloseCurrentBuffer
  \/ GetLine
  \/ GetLineCount

SpecEditor == InitEditor /\ [][NextEditor]_vars

(***************************************************************************)
(* Properties of the editor.                                               *)
(***************************************************************************)
\* C8: InsertText returns ErrNoBuffer when there is no current buffer,
\* whatever the mode; it returns ErrInvalidOperation when a buffer is current
\* and the mode is not Insert; in both cases the editor, and so the current
\* buffer's text and selection, is as before.  In Insert mode with a current
\* buffer the call succeeds, the text is inserted at the head of the
\* selection without removing anything, and the selection is a cursor right
\* after the inserted text.
C8_InsertTextChecks ==
  elast.op = "InsertText" =>
    LET e    == elast.before
        text == elast.arg[1]
    IN  /\ ~HasCurrent(e) => elast.err = "ErrNoBuffer" /\ editor = e
        /\ HasCurrent(e) /\ e.mode # "Insert"
             => elast.err = "ErrInvalidOperation" /\ editor = e
        /\ HasCurrent(e) /\ e.mode = "Insert"
             => LET old  == Rope_String(Cur(e).document)
                    head == Cur(e).selection.End
                    b    == editor.buffers[e.current]
                IN  /\ elast.err = "nil"
                    /\ Rope_String(b.document) = Take(old, head) \o text \o Drop(old, head)
                    /\ b.selection = Sel(head + Len(text), head + Len(text))
                    /\ editor = [e EXCEPT !.buffers[e.current] = b]

\* InsertText was refused in Normal mode on a buffer whose selection is not a
\* cursor.
C8_Witness ==
  /\ elast.op = "InsertText"
  /\ elast.err = "ErrInvalidOperation"
  /\ HasCurrent(elast.before)
  /\ Cur(elast.before).selection.Start # Cur(elast.before).selection.End

\* The operations that delegate to the current buffer.
Delegating ==
  {"InsertText", "DeleteSelection", "DeleteText", "GetCurrentPosition", "LineCol",
   "Selection", "FileName", "FileType", "FilePath", "MoveCursorHorizontal",
   "JumpFromCursor", "JumpToLine", "JumpToTop", "JumpToBottom", "MoveToNextWord",
   "MoveToPrevWord", "SaveCurrentBuffer", "CloseCurrentBuffer", "GetLine",
   "GetLineCount"}

\* C9: with no current buffer every delegating operation returns ErrNoBuffer
\* (it does not panic) and leaves the editor and the disk as they were.
C9_NoBufferEverywhere ==
  elast.op \in Delegating /\ ~HasCurrent(elast.before) =>
    /\ elast.err = "ErrNoBuffer"
    /\ editor = elast.before
    /\ disk = elast.beforeDisk

\* The same for every delegating operation but GetCurrentPosition.
C9_NoBufferButCurrentPosition ==
  elast.op \in Delegating \ {"GetCurrentPosition"} /\ ~HasCurrent(elast.before) =>
    /\ elast.err = "ErrNoBuffer"
    /\ editor = elast.before
    /\ disk = elast.beforeDisk

\* C10: after a successful OpenFile(path) the current buffer is the one stored
\* under Abs(path).  If that path was open, the map and every buffer in it are
\* as before; if not, the map has gained the entry Abs(path) and nothing else
\* has changed.  After a failed OpenFile the map and the current buffer are as
\* before.
C10_OpenFileSwitchesOrAdds ==
  elast.op = "OpenFile" =>
    LET e       == elast.before
        absPath == Abs(elast.arg[1])
    IN  /\ elast.err = "nil" =>
             /\ editor.current = absPath
             /\ absPath \in DOMAIN editor.buffers
        /\ elast.err = "nil" /\ absPath \in DOMAIN e.buffers =>
             editor.buffers = e.buffers
        /\ elast.err = "nil" /\ absPath \notin DOMAIN e.buffers =>
             /\ DOMAIN editor.buffers = DOMAIN e.buffers \cup {absPath}
             /\ Cardinality(DOMAIN editor.buffers) = Cardinality(DOMAIN e.buffers) + 1
             /\ \A p \in DOMAIN e.buffers : editor.buffers[p] = e.buffers[p]
        /\ elast.err # "nil" =>
             /\ editor.buffers = e.buffers
             /\ editor.current = e.current

\* OpenFile switched from another buffer to an open one that had been edited
\* and whose cursor had moved.
C10_Witness ==
  /\ elast.op = "OpenFile"
  /\ elast.err = "nil"
  /\ Abs(elast.arg[1]) \in DOMAIN elast.before.buffers
  /\ elast.before.current # Abs(elast.arg[1])
  /\ elast.before.buffers[Abs(elast.arg[1])].dirty
  /\ elast.before.buffers[Abs(elast.arg[1])].selection # Sel(0, 0)

\* C11: after CloseCurrentBuffer succeeds the closed buffer is no entry of the
\* map, the other entries are as before, and current is one of the remaining
\* buffers if there is one and nil otherwise.  In every state the current
\* buffer, if any, is an entry of the map.
C11_CloseDropsAndRepicks ==
  /\ HasCurrent(editor) => editor.current \in DOMAIN editor.buffers
  /\ elast.op = "CloseCurrentBuffer" /\ elast.err = "nil" =>
       LET e == elast.before
       IN  /\ e.current \notin DOMAIN editor.buffers
           /\ DOMAIN editor.buffers = DOMAIN e.buffers \ {e.current}
           /\ \A p \in DOMAIN editor.buffers : editor.buffers[p] = e.buffers[p]
           /\ IF DOMAIN editor.buffers = {}
              THEN editor.current = NoCurrent
              ELSE editor.current \in DOMAIN editor.buffers

\* A dirty buffer was closed while two other buffers were open.
C11_Witness ==
  /\ elast.op = "CloseCurrentBuffer"
  /\ elast.err = "nil"
  /\ Cardinality(DOMAIN elast.before.buffers) = 3
  /\ Cur(elast.before).dirty
  /\ editor.current \in DOMAIN editor.buffers

(***************************************************************************)
(* The editor over a file of three lines, "aa", "" and "a": the same       *)
(* client and the same operations, for the motions across lines.           *)
(***************************************************************************)
LinesText == <<"a", "a", "\n", "\n", "a">>
LinesDisk == "/w/a.txt" :> LinesText

InitLines ==
  /\ root = Nil
  /\ last = Idle
  /\ IterIdle
  /\ editor = NewEditor
  /\ disk = LinesDisk
  /\ elast = EdIdle
  /\ edits = 0
  /\ BufferIdle
  /\ ChunkBufferIdle
  /\ MoreIdle

SpecLines == InitLines /\ [][NextEditor]_vars

(***************************************************************************)
(* Properties of the motions.  The lines of a text are taken from the      *)
(* text itself, not from the buffer's line index.                          *)
(***************************************************************************)
RECURSIVE TextLines(_)
\* The lines of s, without their line feeds; a text has at least one line.
TextLines(s) ==
  IF \E k \in 1..Len(s) : s[k] = "\n"
  THEN LET k == CHOOSE i \in 1..Len(s) : s[i] = "\n" /\ \A j \in 1..(i - 1) : s[j] # "\n"
       IN  <<SubSeq(s, 1, k - 1)>> \o TextLines(SubSeq(s, k + 1, Len(s)))
  ELSE <<s>>

RECURSIVE LineStartIn(_, _)
\* The position where line i (from 0) of the lines ls starts.
LineStartIn(ls, i) == IF i = 0 THEN 0 ELSE LineStartIn(ls, i - 1) + Len(ls[i]) + 1

\* The (line, column) of position p in s: the last line that starts at or
\* before p.
LineColIn(s, p) ==
  LET ls   == TextLines(s)
      line == CHOOSE i \in 0..(Len(ls) - 1) :
                /\ LineStartIn(ls, i) <= p
                /\ \A j \in (i + 1)..(Len(ls) - 1) : LineStartIn(ls, j) > p
  IN  <<line, p - LineStartIn(ls, line)>>

BufText(b) == Rope_String(b.document)
HeadLineCol(b) == LineColIn(BufText(b), b.selection.End)
LineLenOf(b, i) == Len(TextLines(BufText(b))[i + 1])
LineCountOf(b) == Len(TextLines(BufText(b)))
ClampLine(b, i) == Clamp(i, 0, LineCountOf(b) - 1)

\* The line a successful vertical motion was asked to reach.
TargetLine(c) ==
  LET b == Cur(c.before)
  IN  CASE c.op = "JumpFromCursor" -> ClampLine(b, HeadLineCol(b)[1] + c.arg[1])
        [] c.op = "JumpToLine"     -> ClampLine(b, c.arg[1])
        [] c.op = "JumpToTop"      -> 0
        [] c.op = "JumpToBottom"   -> LineCountOf(b) - 1

\* The editor after the jumps by the offsets js, one after the other, and
\* the (line, column) of the head after each.
RECURSIVE JumpRun(_, _)
JumpRun(e, js) ==
  IF js = << >> THEN << >>
  ELSE LET r == Editor_JumpFromCursor(e, Head(js), FALSE)
       IN  <<HeadLineCol(Cur(r.e)) \o <<r.e.desiredColumn>>>> \o JumpRun(r.e, Tail(js))

\* Scenario 6 of the specification with every letter written "a": lines of
\* 6, 2 and 4 letters, the cursor brought to (0, 5) by horizontal motions.
StickyText ==
  <<"a", "a", "a", "a", "a", "a", "\n", "a", "a", "\n", "a", "a", "a", "a">>
RECURSIVE MoveRight(_, _)
MoveRight(e, n) ==
  IF n = 0 THEN e ELSE MoveRight(Editor_MoveCursorHorizontal(e, 1, FALSE).e, n - 1)
StickyStart ==
  MoveRight(Editor_OpenFile(NewEditor, "a.txt", TRUE, "/w/a.txt" :> StickyText).e, 5)
StickyRun == JumpRun(StickyStart, <<1, 1, -1, -1>>)

\* C12: a successful vertical motion (JumpFromCursor, JumpToLine) made with
\* desiredColumn = c already set leaves the head on the target line at column
\* min(c, length of that line) and leaves desiredColumn = c; a successful
\* MoveCursorHorizontal leaves desiredColumn equal to the column of the head.
\* So every motion of a run of vertical motions after a horizontal one aims
\* at the column the horizontal motion left.  On lines of 6, 2 and 4 letters
\* with the cursor at (0, 5) the jumps +1, +1, -1, -1 visit (1, 2), (2, 4),
\* (1, 2), (0, 5) with desiredColumn 5 throughout.
C12_StickyColumn ==
  /\ elast.op \in {"JumpFromCursor", "JumpToLine"} /\ elast.err = "nil"
       /\ elast.before.desiredColumn # NoColumn =>
       LET c    == elast.before.desiredColumn
           line == TargetLine(elast)
           b    == Cur(editor)
       IN  /\ HeadLineCol(b) = <<line, Min2(c, LineLenOf(b, line))>>
           /\ editor.desiredColumn = c
  /\ elast.op = "MoveCursorHorizontal" /\ elast.err = "nil" =>
       editor.desiredColumn = HeadLineCol(Cur(editor))[2]
  /\ StickyRun = <<<<1, 2, 5>>, <<2, 4, 5>>, <<1, 2, 5>>, <<0, 5, 5>>>>

\* A jump came back to a longer line and reached the remembered column again,
\* after the line it left had clamped it.
C12_Witness ==
  /\ elast.op = "JumpFromCursor"
  /\ elast.err = "nil"
  /\ elast.before.desiredColumn = 2
  /\ HeadLineCol(Cur(elast.before)) = <<1, 0>>
  /\ HeadLineCol(Cur(editor)) = <<0, 2>>

\* The column the next vertical motion will aim at.
AimedColumn(e) ==
  IF e.desiredColumn = NoColumn THEN HeadLineCol(Cur(e))[2] ELSE e.desiredColumn

\* C13: after a successful MoveCursorHorizontal desiredColumn is the column of
\* the new head, and after a word motion that moved the head to another
\* column the next vertical motion aims at the column of the new head.
C13_ColumnFollowsLastAction ==
  /\ elast.op = "MoveCursorHorizontal" /\ elast.err = "nil" =>
       editor.desiredColumn = HeadLineCol(Cur(editor))[2]
  /\ elast.op \in {"MoveToNextWord", "MoveToPrevWord"} /\ elast.err = "nil"
       /\ HeadLineCol(Cur(editor))[2] # HeadLineCol(Cur(elast.before))[2] =>
       AimedColumn(editor) = HeadLineCol(Cur(editor))[2]

\* The part of C13 about MoveCursorHorizontal alone.
C13_HorizontalSetsColumn ==
  elast.op = "MoveCursorHorizontal" /\ elast.err = "nil" =>
    editor.desiredColumn = HeadLineCol(Cur(editor))[2]

\* What the desired-column policy asks of the successful vertical motion
\* recorded in elast: an unset desiredColumn is first set to the column of
\* the head, the head lands on the target line at min(desiredColumn, length
\* of the line), and the next vertical motion aims at the same column.
PolicyApplied ==
  LET c0   == elast.before.desiredColumn
      c    == IF c0 = NoColumn THEN HeadLineCol(Cur(elast.before))[2] ELSE c0
      line == TargetLine(elast)
      b    == Cur(editor)
  IN  /\ HeadLineCol(b) = <<line, Min2(c, LineLenOf(b, line))>>
      /\ AimedColumn(editor) = c

\* C14: JumpToLine, JumpToTop and JumpToBottom apply the desired-column
\* policy of JumpFromCursor.
C14_AbsoluteJumpsSticky ==
  elast.op \in {"JumpToLine", "JumpToTop", "JumpToBottom"} /\ elast.err = "nil" =>
    PolicyApplied

\* The part of C14 about JumpToLine alone, with JumpFromCursor for comparison.
C14_JumpToLineSticky ==
  elast.op \in {"JumpToLine", "JumpFromCursor"} /\ elast.err = "nil" => PolicyApplied

(***************************************************************************)
(* The buffer under a single client that calls its operations directly,    *)
(* in any order, taking each result before the next call.  The document    *)
(* is any short text over a letter, a space, a symbol and a line feed.     *)
(***************************************************************************)
BufAlphabet == {"a", " ", ".", "\n"}
BufTexts == SeqsUpTo(BufAlphabet, MaxBufLen)
BufInsertTexts == SeqsUpTo(BufAlphabet, 1) \ {<< >>}
BufOffsets == {-1, 1}
BufPositions(b) == -1 .. (Rope_TotalGraphemes(b.document) + 1)
BufLineNums == -1 .. MaxBufLen
BufCols == -1 .. MaxBufLen

InitBuffer ==
  /\ root = Nil
  /\ last = Idle
  /\ IterIdle
  /\ EditorIdle
  /\ \E s \in BufTexts : buf = NewBuffer("/w/a.txt", s)
  /\ blast = BufIdle
  /\ bedits = 0
  /\ ChunkBufferIdle
  /\ MoreIdle

BufReady == blast.op = "none"

\* The call op(arg) returned r.
BufStep(op, arg, r, res) ==
  /\ buf' = r.b
  /\ blast' = BufCall(op, arg, r.err, res, buf)
  /\ UNCHANGED <<bedits, ropeVars, iterVars, edVars, chunkVars, moreVars>>

\* The same for an edit: the client makes at most MaxBufEdits of them.
BufEditStep(op, arg, r) ==
  /\ r.err = "nil" => bedits < MaxBufEdits
  /\ buf' = r.b
  /\ blast' = BufCall(op, arg, r.err, << >>, buf)
  /\ bedits' = IF r.err = "nil" THEN bedits + 1 ELSE bedits
  /\ UNCHANGED <<ropeVars, iterVars, edVars, chunkVars, moreVars>>

\* The same for a query, which leaves the buffer alone.
BufQuery(op, arg, err, res) ==
  /\ blast' = BufCall(op, arg, err, res, buf)
  /\ UNCHANGED <<buf, bedits, ropeVars, iterVars, edVars, chunkVars, moreVars>>

BufReturn ==
  /\ blast.op # "none"
  /\ blast' = BufIdle
  /\ UNCHANGED <<buf, bedits, ropeVars, iterVars, edVars, chunkVars, moreVars>>

BufInsert ==
  \E text \in BufInsertTexts :
    BufReady /\ BufEditStep("Insert", <<text>>, Buffer_Insert(buf, text))

BufDelete ==
  \E start \in BufPositions(buf), end \in BufPositions(buf) :
    BufReady /\ BufEditStep("Delete", <<start, end>>, Buffer_Delete(buf, start, end))

BufDeleteSelection ==
  BufReady /\ BufEditStep("DeleteSelection", << >>, Buffer_DeleteSelection(buf))

BufCollapseSelectionsToCursor ==
  /\ BufReady
  /\ BufStep("CollapseSelectionsToCursor", << >>,
             [b |-> Buffer_CollapseSelectionsToCursor(buf), err |-> "nil"], << >>)

BufMoveSelections ==
  \E offset \in BufOffsets, extend \in BOOLEAN :
    /\ BufReady
    /\ BufStep("MoveSelections", <<offset, extend>>,
               Buffer_MoveSelections(buf, offset, extend), << >>)

BufMoveSelectionToLineCol ==
  \E line \in BufLineNums, col \in BufCols, extend \in BOOLEAN :
    /\ BufReady
    /\ BufStep("MoveSelectionToLineCol", <<line, col, extend>>,
               Buffer_MoveSelectionToLineCol(buf, line, col, extend), << >>)

BufMoveToNextWord ==
  \E extend \in BOOLEAN :
    /\ BufReady
    /\ BufStep("MoveToNextWord", <<extend>>, Buffer_MoveToNextWord(buf, extend), << >>)

BufMoveToPrevWord ==
  \E extend \in BOOLEAN :
    /\ BufReady
    /\ BufStep("MoveToPrevWord", <<extend>>, Buffer_MoveToPrevWord(buf, extend), << >>)

BufPositionToLineCol ==
  \E pos \in BufPositions(buf) :
    LET r == Buffer_PositionToLineCol(buf, pos)
    IN  BufReady /\ BufQuery("PositionToLineCol", <<pos>>, r.err, <<r.line, r.col>>)

BufLineCount ==
  BufReady /\ BufQuery("LineCount", << >>, "nil", <<Buffer_LineCount(buf)>>)

BufGetLine ==
  \E lineNum \in BufLineNums :
    LET r == Buffer_GetLine(buf, lineNum)
    IN  BufReady /\ BufQuery("GetLine", <<lineNum>>, r.err, r.str)

NextBuffer ==
  \/ BufInsert
  \/ BufDelete
  \/ BufDeleteSelection
  \/ BufCollapseSelectionsToCursor
  \/ BufMoveSelections
  \/ BufMoveSelectionToLineCol
  \/ BufMoveToNextWord
  \/ BufMoveToPrevWord
  \/ BufPositionToLineCol
  \/ BufLineCount
  \/ BufGetLine
  \/ BufReturn

SpecBuffer == InitBuffer /\ [][NextBuffer]_vars

(***************************************************************************)
(* Properties of the word motions.  A word stop is looked for in the       *)
(* clusters of the text itself.                                           *)
(***************************************************************************)
Clusters(b) == Graphemes(BufText(b))
ClassAt(cs, p) == getWordType(cs[p + 1])

\* The smallest position after h whose cluster is of another class than the
\* one at h, or the length of the text.
ForwardStop(cs, h) ==
  LET N     == Len(cs)
      stops == {p \in (h + 1)..(N - 1) : ClassAt(cs, p) # ClassAt(cs, h)}
  IN  IF h >= N \/ stops = {} THEN N
      ELSE CHOOSE p \in stops : \A q \in stops : p <= q

\* The start of the longest run of clusters of one class that ends at h - 1.
BackwardStop(cs, h) ==
  IF h = 0 THEN 0
  ELSE LET runs == {q \in 0..(h - 1) :
                      \A j \in q..(h - 1) : ClassAt(cs, j) = ClassAt(cs, h - 1)}
       IN  CHOOSE q \in runs : \A r \in runs : q <= r

\* The heads MoveToNextWord(false) reaches from b, one call after the other,
\* until the head is at the end of the text.
RECURSIVE NextWordRun(_)
NextWordRun(b) ==
  IF b.selection.End >= Rope_TotalGraphemes(b.document) THEN << >>
  ELSE LET nb == Buffer_MoveToNextWord(b, FALSE).b
       IN  <<nb.selection.End>> \o NextWordRun(nb)

\* Scenario 5 of the specification, "foo bar_baz  qux", with its letters
\* written a and b.
WordText ==
  <<"a", "b", "b", " ", "b", "a", "a", "_", "b", "a", "a", " ", " ", "a", "a", "b">>

WordStops == NextWordRun(NewBuffer("/w/a.txt", WordText))

\* C15: MoveToNextWord moves the head from h to the smallest position after
\* h whose cluster is of another class than the one at h, or to the end of
\* the text (from the end it stays there); without extend the selection
\* collapses onto the new head, with extend the anchor stays; over
\* "foo bar_baz  qux" the head goes 0, 3, 4, 11, 13, 16.
C15_NextWordStops ==
  /\ blast.op = "MoveToNextWord" =>
       LET b0 == blast.before
           p  == ForwardStop(Clusters(b0), b0.selection.End)
       IN  /\ blast.err = "nil"
           /\ buf.selection.End = p
           /\ buf.selection.Start = IF blast.arg[1] THEN b0.selection.Start ELSE p
           /\ buf.document = b0.document
  /\ WordStops = <<3, 4, 11, 13, 16>>

C15_Witness ==
  /\ blast.op = "MoveToNextWord" /\ blast.arg[1]
  /\ BufText(buf) = <<"a", ".", " ">>
  /\ blast.before.selection = Sel(2, 0)
  /\ buf.selection = Sel(2, 1)

\* C16: MoveToPrevWord without extend, from any selection with head h,
\* collapses the selection onto the start of the longest run of one class
\* that ends at h - 1 (onto 0 when h = 0): the scan starts from the head.
C16_PrevWordFromHead ==
  blast.op = "MoveToPrevWord" /\ ~blast.arg[1] =>
    LET b0 == blast.before
        q  == BackwardStop(Clusters(b0), b0.selection.End)
    IN  blast.err = "nil" /\ buf.selection = Sel(q, q)

\* The same from an empty selection only.
C16_PrevWordFromCursor ==
  blast.op = "MoveToPrevWord" /\ ~blast.arg[1]
    /\ blast.before.selection.Start = blast.before.selection.End =>
    LET b0 == blast.before
        q  == BackwardStop(Clusters(b0), b0.selection.End)
    IN  blast.err = "nil" /\ buf.selection = Sel(q, q)

\* C18: MoveSelectionToLineCol(line, col, extend) fails with
\* ErrInvalidLineCol and leaves the buffer as it was when line < 0, line >=
\* line count or col < 0; otherwise the head goes to the start of the line
\* plus min(col, length of the line), and the anchor stays with extend and
\* joins the head without.
C18_LineColMotion ==
  blast.op = "MoveSelectionToLineCol" =>
    LET b0   == blast.before
        line == blast.arg[1]
        col  == blast.arg[2]
    IN  IF line < 0 \/ line >= LineCountOf(b0) \/ col < 0
        THEN blast.err = "ErrInvalidLineCol" /\ buf = b0
        ELSE LET head == LineStartIn(TextLines(BufText(b0)), line)
                           + Min2(col, LineLenOf(b0, line))
             IN  /\ blast.err = "nil"
                 /\ buf.selection.End = head
                 /\ buf.selection.Start = IF blast.arg[3] THEN b0.selection.Start ELSE head
                 /\ buf.document = b0.document

C18_Witness ==
  /\ blast.op = "MoveSelectionToLineCol" /\ blast.err = "nil"
  /\ BufText(buf) = <<"a", "\n", "a">>
  /\ blast.arg = <<1, 2, TRUE>>
  /\ blast.before.selection = Sel(1, 1)
  /\ buf.selection = Sel(1, 3)

C18_WitnessInvalid ==
  /\ blast.op = "MoveSelectionToLineCol" /\ blast.err = "ErrInvalidLineCol"
  /\ BufText(buf) = <<"a", "\n">>
  /\ blast.arg[1] = 2 /\ blast.arg[2] = 0
  /\ buf.selection = Sel(2, 1)

(***************************************************************************)
(* The chunk-based buffer under a single client that opens a short file    *)
(* of letters and line feeds and calls the buffer's operations in any      *)
(* order, taking each result before the next call.                         *)
(***************************************************************************)
FileAlphabet == {"a", "\n"}
FileTexts == {s \in SeqsUpTo(FileAlphabet, MaxFileLen) : countNewlines(s) <= MaxFileNewlines}
ChunkInsertTexts == SeqsUpTo(FileAlphabet, 1) \ {<< >>}
ChunkPositions(b) == -1 .. (ChunkBuffer_Size(b) + 1)
\* Positions handed to SetCursor: the ends of the accepted range and the
\* positions next to them.
ChunkCursors(b) == {-1, 0, ChunkBuffer_Size(b), ChunkBuffer_Size(b) + 1}
\* Ranges handed to Delete: within one chunk and across chunks, from every
\* position, and three that are out of order or out of bounds.
ChunkRanges(b) ==
  {<<start, start + n>> : start \in 0 .. (ChunkBuffer_Size(b) - 1), n \in {1, ChunkSize + 1}}
    \cup {<<1, 0>>, <<-1, 0>>, <<ChunkBuffer_Size(b), ChunkBuffer_Size(b) + 1>>}
ChunkLineNums == -1 .. 2
ChunkCols == {-1, 0, 2}

InitChunk ==
  /\ root = Nil
  /\ last = Idle
  /\ IterIdle
  /\ EditorIdle
  /\ BufferIdle
  /\ MoreIdle
  /\ \E s \in FileTexts : cbuf = ChunkBuffer_NewBuffer(s)
  /\ clast = ChunkIdle
  /\ cedits = 0

ChunkReady == clast.op = "none"

\* The call op(arg) returned r.
ChunkStep(op, arg, r, res) ==
  /\ cbuf' = r.b
  /\ clast' = BufCall(op, arg, r.err, res, cbuf)
  /\ UNCHANGED <<cedits, ropeVars, iterVars, edVars, bufVars, moreVars>>

\* The same for an edit: the client makes at most MaxChunkEdits of them.
ChunkEditStep(op, arg, r) ==
  /\ r.err = "nil" => cedits < MaxChunkEdits
  /\ cbuf' = r.b
  /\ clast' = BufCall(op, arg, r.err, << >>, cbuf)
  /\ cedits' = IF r.err = "nil" THEN cedits + 1 ELSE cedits
  /\ UNCHANGED <<ropeVars, iterVars, edVars, bufVars, moreVars>>

\* The caller takes the result; a panic ends the program.
ChunkReturn ==
  /\ clast.op # "none"
  /\ clast.err # "panic"
  /\ clast' = ChunkIdle
  /\ UNCHANGED <<cbuf, cedits, ropeVars, iterVars, edVars, bufVars, moreVars>>

ChunkInsert ==
  \E s \in ChunkInsertTexts :
    ChunkReady /\ ChunkEditStep("Insert", <<s>>, ChunkBuffer_Insert(cbuf, s))

ChunkDelete ==
  \E rg \in ChunkRanges(cbuf) :
    ChunkReady /\ ChunkEditStep("Delete", rg, ChunkBuffer_Delete(cbuf, rg[1], rg[2]))

ChunkMoveCursor ==
  \E offset \in BufOffsets :
    ChunkReady /\ ChunkStep("MoveCursor", <<offset>>, ChunkBuffer_MoveCursor(cbuf, offset), << >>)

ChunkSetCursor ==
  \E pos \in ChunkCursors(cbuf) :
    ChunkReady /\ ChunkStep("SetCursor", <<pos>>, ChunkBuffer_SetCursor(cbuf, pos), << >>)

ChunkMoveCursorToLineCol ==
  \E line \in ChunkLineNums, col \in ChunkCols :
    LET r == ChunkBuffer_MoveCursorToLineCol(cbuf, line, col)
    IN  ChunkReady /\ ChunkStep("MoveCursorToLineCol", <<line, col>>, r, <<r.line, r.col>>)

ChunkPositionToLineCol ==
  \E pos \in ChunkPositions(cbuf) :
    LET r == ChunkBuffer_PositionToLineCol(cbuf, pos)
    IN  ChunkReady /\ ChunkStep("PositionToLineCol", <<pos>>, r, <<r.line, r.col>>)

ChunkLineCount ==
  LET r == ChunkBuffer_LineCount(cbuf)
  IN  ChunkReady /\ ChunkStep("LineCount", << >>, r, <<r.count>>)

NextChunk ==
  \/ ChunkInsert
  \/ ChunkDelete
  \/ ChunkMoveCursor
  \/ ChunkSetCursor
  \/ ChunkMoveCursorToLineCol
  \/ ChunkPositionToLineCol
  \/ ChunkLineCount
  \/ ChunkReturn

SpecChunk == InitChunk /\ [][NextChunk]_vars

(***************************************************************************)
(* The same client editing and saving.                                     *)
(***************************************************************************)
ChunkSave ==
  \E order \in MapOrders(cbuf.manager.chunks) :
    ChunkReady /\ ChunkStep("Save", << >>, ChunkBuffer_Save(cbuf, order), << >>)

NextSave ==
  \/ ChunkInsert
  \/ ChunkDelete
  \/ ChunkMoveCursor
  \/ ChunkSave
  \/ ChunkReturn

SpecSave == InitChunk /\ [][NextSave]_vars

(***************************************************************************)
(* Properties of the chunk-based buffer.  The document is what a read of   *)
(* every chunk in turn yields: the data of a loaded chunk, the bytes of    *)
(* the file for a chunk that is not loaded.                                *)
(***************************************************************************)
RECURSIVE ContentFrom(_, _)
ContentFrom(cm, id) ==
  IF id \in DOMAIN cm.chunks
  THEN Rope_String(cm.chunks[id].Data) \o ContentFrom(cm, id + 1)
  ELSE IF id * ChunkSize < cm.totalSize
       THEN SubSeq(cm.file, id * ChunkSize + 1, Min2((id + 1) * ChunkSize, cm.totalSize))
              \o ContentFrom(cm, id + 1)
       ELSE << >>

Content(b) == ContentFrom(b.manager, 0)

\* C17: after any sequence of buffer operations the cursor lies within the
\* document, 0 <= cursor <= N, and within the range SetCursor accepts.
C17_CursorInRange ==
  /\ 0 <= cbuf.cursor
  /\ cbuf.cursor <= Len(Content(cbuf))
  /\ cbuf.cursor <= ChunkBuffer_Size(cbuf)

\* The same before the first edit.
C17_CursorInRangeUnedited ==
  cedits = 0 =>
    /\ 0 <= cbuf.cursor
    /\ cbuf.cursor <= Len(Content(cbuf))
    /\ cbuf.cursor <= ChunkBuffer_Size(cbuf)

\* The positions where the lines of the text s start.
LineStartsOf(s) == {LineStartIn(TextLines(s), i) : i \in 0..(Len(TextLines(s)) - 1)}

\* PositionToLineCol(p) answered for a position p of the document: it
\* succeeded, the line and column it gave are those of p in the text,
\* and MoveCursorToLineCol with them puts the cursor on p.
RoundTripOk ==
  LET p  == clast.arg[1]
      r2 == ChunkBuffer_MoveCursorToLineCol(cbuf, clast.res[1], clast.res[2])
  IN  /\ clast.err = "nil"
      /\ clast.res = LineColIn(Content(clast.before), p)
      /\ r2.err = "nil"
      /\ r2.b.cursor = p

\* C19: for every document and every position p in 0..N, a line feed's
\* position and N included, position -> (line, column) -> position gives p
\* back, and the start of line i converts to (i, 0).
C19_RoundTrip ==
  clast.op = "PositionToLineCol" /\ clast.arg[1] \in 0..Len(Content(clast.before)) =>
    RoundTripOk

\* The same on a buffer that has not been edited.
C19_RoundTripUnedited ==
  clast.op = "PositionToLineCol" /\ clast.arg[1] \in 0..Len(Content(clast.before))
    /\ cedits = 0 =>
    RoundTripOk

\* C20: LineCount is 1 plus the number of line feeds of the document, on a
\* fresh buffer and after any mutation: 1 for the empty document, and the
\* empty line after a final line feed is counted.
C20_LineCount ==
  clast.op = "LineCount" =>
    /\ clast.err = "nil"
    /\ clast.res[1] = 1 + countNewlines(Content(clast.before))

\* What LineCount returns on a buffer that has not been edited: the final
\* line is counted only when the file's size is not a multiple of ChunkSize
\* and the file does not end with a line feed.
C20_LineCountUnedited ==
  clast.op = "LineCount" /\ cedits = 0 =>
    LET s == Content(clast.before)
    IN  clast.res[1] = countNewlines(s)
                         + (IF Len(s) % ChunkSize # 0 /\ ~HasNewlineSuffix(s) THEN 1 ELSE 0)

(***************************************************************************)
(* The same three properties on the rope-based buffer.                     *)
(***************************************************************************)
\* Both ends of the selection lie within the document.
C17_SelectionInRange ==
  /\ buf.selection.Start \in 0..Rope_TotalGraphemes(buf.document)
  /\ buf.selection.End \in 0..Rope_TotalGraphemes(buf.document)

\* The head alone lies within the document.
C17_HeadInRange == buf.selection.End \in 0..Rope_TotalGraphemes(buf.document)

\* PositionToLineCol and MoveSelectionToLineCol are inverse on 0..N.
C19_RopeRoundTrip ==
  blast.op = "PositionToLineCol" /\ blast.arg[1] \in 0..Len(Clusters(blast.before)) =>
    LET p  == blast.arg[1]
        r2 == Buffer_MoveSelectionToLineCol(buf, blast.res[1], blast.res[2], FALSE)
    IN  /\ blast.err = "nil"
        /\ blast.res = LineColIn(BufText(buf), p)
        /\ r2.err = "nil"
        /\ r2.b.selection = Sel(p, p)

\* The line count is 1 plus the number of line feeds.
C20_RopeLineCount ==
  /\ Buffer_LineCount(buf) = 1 + countNewlines(BufText(buf))
  /\ blast.op = "LineCount" => blast.res = <<1 + countNewlines(BufText(buf))>>

RECURSIVE WordReach(_, _, _)
WordReach(b, forward, fuel) ==
  IF b.selection.End = (IF forward THEN Rope_TotalGraphemes(b.document) ELSE 0) THEN TRUE
  ELSE IF fuel = 0 THEN FALSE
  ELSE With(IF forward THEN Buffer_MoveToNextWord(b, FALSE).b
                       ELSE Buffer_MoveToPrevWord(b, FALSE).b,
            LAMBDA nb : WordReach(nb, forward, fuel - 1))

Collapsed(b) == b.selection.Start = b.selection.End

\* C30: from an empty selection at h < N, MoveToNextWord ends strictly after
\* h, and from h > 0 MoveToPrevWord without extend ends strictly before h
\* (with extend it is the lower end of the selection that ends before h);
\* at N, respectively 0, the motion returns without error and leaves the
\* buffer as it was; repeating the motion reaches N, respectively 0, within
\* N steps.
C30_WordMotionProgress ==
  LET b0 == blast.before
      h  == b0.selection.End
      N  == Rope_TotalGraphemes(b0.document)
  IN  /\ blast.op = "MoveToNextWord" /\ Collapsed(b0) =>
           /\ blast.err = "nil"
           /\ h < N => buf.selection.End > h /\ buf.selection.End <= N
           /\ h = N => buf = b0
      /\ blast.op = "MoveToPrevWord" /\ Collapsed(b0) =>
           /\ blast.err = "nil"
           /\ h > 0 => buf.selection.Start < h /\ buf.selection.Start >= 0
           /\ h > 0 /\ ~blast.arg[1] => buf.selection.End < h
           /\ h = 0 => buf = b0
      /\ Collapsed(buf) =>
           /\ WordReach(buf, TRUE, Rope_TotalGraphemes(buf.document))
           /\ WordReach(buf, FALSE, Rope_TotalGraphemes(buf.document))

\* A backward motion from the end of " a" stopped inside the document.
C30_Witness ==
  /\ blast.op = "MoveToPrevWord" /\ ~blast.arg[1]
  /\ BufText(buf) = <<" ", "a">>
  /\ blast.before.selection = Sel(2, 2)
  /\ buf.selection = Sel(1, 1)

(***************************************************************************)
(* The bound of the chunk cache.                                           *)
(***************************************************************************)
\* C26: at most MaxLoadedChunks chunks are held in memory, and loadedChunks
\* equals the number of entries of the chunks map and is never negative.
C26_CacheBound ==
  LET cm == cbuf.manager
  IN  /\ Cardinality(DOMAIN cm.chunks) <= MaxLoadedChunks
      /\ cm.loadedChunks = Cardinality(DOMAIN cm.chunks)
      /\ cm.loadedChunks >= 0

\* The same while no Delete has been called.
C26_CacheBoundUnedited ==
  cedits = 0 => C26_CacheBound

\* The counter went below zero.
C26_NegativeCounter == cbuf.manager.loadedChunks >= 0

\* More chunks are held than MaxLoadedChunks.
C26_MapBound == Cardinality(DOMAIN cbuf.manager.chunks) <= MaxLoadedChunks

(***************************************************************************)
(* Saving the chunk-based buffer.                                          *)
(***************************************************************************)
NoneDirty(b) == \A id \in DOMAIN b.manager.chunks : ~b.manager.chunks[id].Dirty

\* The document a buffer opened on the file of b holds.
Reopened(b) == Content(ChunkBuffer_NewBuffer(b.manager.file))

\* C21: after a successful Save the file holds exactly the text the buffer
\* held when Save was called, so that a buffer opened on the path holds the
\* same document, and no chunk is dirty.
C21_SaveRoundTrip ==
  clast.op = "Save" /\ clast.err = "nil" =>
    /\ cbuf.manager.file = Content(clast.before)
    /\ Reopened(cbuf) = Content(clast.before)
    /\ NoneDirty(cbuf)

\* The part that holds: Save leaves no chunk dirty, and it leaves the file
\* as it was when no chunk was dirty.
C21_SaveCleans ==
  clast.op = "Save" /\ clast.err = "nil" =>
    /\ NoneDirty(cbuf)
    /\ NoneDirty(clast.before) => cbuf.manager.file = clast.before.manager.file

(***************************************************************************)
(* The shape of the rope's tree.                                           *)
(***************************************************************************)
RECURSIVE NodeInvariant(_)
\* Every leaf below n holds 1..MaxLeafSize clusters and its weight is their
\* number; every internal node has two children and the clusters of its
\* left subtree as weight.
NodeInvariant(n) ==
  IF IsNil(n) THEN TRUE
  ELSE IF IsLeaf(n)
       THEN /\ n.data # << >>
            /\ n.weight = countGraphemes(n.data)
            /\ n.weight >= 1
            /\ n.weight <= MaxLeafSize
  ELSE /\ ~IsNil(n.left) /\ ~IsNil(n.right)
       /\ n.weight = totalGraphemes(n.left)
       /\ NodeInvariant(n.left)
       /\ NodeInvariant(n.right)

\* C25: after NewRope and after every Insert, Delete and Replace, failed
\* ones included, every leaf holds between 1 and MaxLeafSize clusters with
\* its weight their number, every internal node has two non-nil children
\* and the clusters of its left subtree as weight, and the root is nil
\* exactly when the document is empty.
C25_RopeInvariants ==
  /\ NodeInvariant(root)
  /\ IsNil(root) <=> Rope_String(root) = << >>

\* An insert of the empty string at the end of a document of several
\* leaves, a split at N, has returned.
C25_Witness ==
  /\ last.op = "Insert" /\ last.err = "nil"
  /\ last.s = << >>
  /\ last.a = Rope_TotalGraphemes(last.before)
  /\ LeafCount(root) >= 2

\* A delete that starts at 0, a split at 0, left a document of several leaves.
C25_WitnessSplitAtZero ==
  /\ last.op = "Delete" /\ last.err = "nil"
  /\ last.a = 0 /\ last.b > 0
  /\ LeafCount(root) >= 2

(***************************************************************************)
(* Mutations while an iterator is being consumed.                          *)
(***************************************************************************)
\* No step changes a node that exists: the heap only grows.
NodesKept ==
  /\ Len(heap') >= Len(heap)
  /\ \A a \in 1..Len(heap) : heap'[a] = heap[a]

\* What the iterator has yielded is the beginning of the document it was
\* created on, and the whole of it once Next has reported the end.
YieldsSnapshot ==
  hit.live =>
    /\ IsPrefix(hout, hsnap)
    /\ hit.position = Len(hout)
    /\ hit.done => hout = hsnap

\* C29: Insert, Delete and Replace leave every existing node as it is (they
\* allocate nodes and set the root), and an iterator created before any
\* number of mutations yields the clusters of the document it was created
\* on, in order, and then the end.
C29_IteratorSnapshot == [][NodesKept]_vars /\ []YieldsSnapshot

\* An iterator over a document of several clusters was consumed to the end
\* with two mutations made after its creation, and the document now differs
\* from the one it yielded.
C29_Witness ==
  /\ hit.live /\ hit.done
  /\ hit.mutations >= 2
  /\ Len(hout) >= 2
  /\ RopeClusters(TreeAt(heap, hroot)) # hsnap

(***************************************************************************)
(* The cursor's line and the viewport.                                     *)
(***************************************************************************)
\* C27: after Update(c, h), for every offset and padding reached and every
\* c >= 0 and h >= 1, the offset is >= 0 and offset <= c < offset + h; the
\* range that VisibleRange then returns holds c.
C27_CursorVisible ==
  /\ vlast.op = "Update" =>
       /\ viewport.offset >= 0
       /\ viewport.offset <= vlast.a
       /\ vlast.a < viewport.offset + vlast.b
  /\ vlast.op = "VisibleRange" =>
       /\ vlast.res[1] <= vlast.a
       /\ vlast.a < vlast.res[2]

\* What Update does keep: the offset never becomes negative, and the cursor
\* is visible whenever the padding is at least 1 and the height more than
\* twice the padding.
C27_CursorVisiblePadded ==
  /\ viewport.offset >= 0
  /\ vlast.op = "Update" /\ viewport.padding >= 1 /\ vlast.b > 2 * viewport.padding =>
       /\ viewport.offset <= vlast.a
       /\ vlast.a < viewport.offset + vlast.b

(***************************************************************************)
(* Locks.                                                                  *)
(***************************************************************************)
Access(t) == AtStep(t, "Read") \/ AtStep(t, "Write")

\* The thread's next step reads f with the editor's lock held, or writes f
\* with the lock held exclusively.
LockedAccess(t) ==
  /\ AtStep(t, "Read") => Holds(t, "Editor")
  /\ AtStep(t, "Write") => mu["Editor"].w = t

\* Two threads are about to access the same field, one of them writing.
Conflict(t, u) ==
  /\ Access(t) /\ Access(u)
  /\ NextStep(t)[2] = NextStep(u)[2]
  /\ AtStep(t, "Write") \/ AtStep(u, "Write")

\* C22: every read of mode, current and buffers is made with the editor's
\* lock held and every write with it held exclusively, so that no two
\* threads are at conflicting accesses to one of them: SetMode and GetMode
\* are never at the mode while InsertText tests it, and no query is at
\* current while OpenFile, SwitchBuffer or CloseCurrentBuffer writes it.
C22_EditorFieldsLocked ==
  /\ \A t \in Threads : Access(t) /\ NextStep(t)[2] \in EditorFields => LockedAccess(t)
  /\ \A t, u \in Threads :
       t # u /\ Access(t) /\ NextStep(t)[2] \in EditorFields => ~Conflict(t, u)

\* The part that holds: the buffer map is only accessed under the lock.
C22_BufferMapLocked ==
  \A t \in Threads : Access(t) /\ NextStep(t)[2] = "buffers" => LockedAccess(t)

\* Editor, then Buffer, then the locks below the buffer.
Rank(l) == IF l = "Editor" THEN 1 ELSE IF l = "Buffer" THEN 2 ELSE 3

Acquiring(t) == AtStep(t, "Lock") \/ AtStep(t, "RLock")

\* A thread acquires a lock that it does not hold, and holds none that
\* comes later in the order.
LockOrderKept ==
  \A t \in Threads : Acquiring(t) =>
    /\ ~Holds(t, NextStep(t)[2])
    /\ \A h \in HeldBy(t) : Rank(h) <= Rank(NextStep(t)[2])

\* C23: under any interleaving, with every thread that can take a step
\* scheduled, locks are acquired in the order Editor, Buffer, Rope or
\* LineIndex, no thread acquires a lock it holds, and every operation that
\* was called returns.
C23_RunsToCompletion ==
  /\ []LockOrderKept
  /\ \A t \in Threads : Running(t) ~> th[t].done

\* The part that holds: no thread acquires a lock while it holds one that
\* comes later in the order, and only Close acquires a lock it holds.
C23_OrderKeptButClose ==
  \A t \in Threads : Acquiring(t) =>
    /\ \A h \in HeldBy(t) \ {NextStep(t)[2]} : Rank(h) <= Rank(NextStep(t)[2])
    /\ Holds(t, NextStep(t)[2]) => th[t].prog \in {"BufferClose", "CloseCurrentBuffer"}

BufferFields == Fields \ EditorFields

ReaderDone(t) == th[t].done /\ th[t].prog # "none" /\ ~IsMutator(th[t].prog)

Quiet == \A u \in Threads : ~(Running(u) /\ IsMutator(th[u].prog))

\* What the reader saw of the buffer is part of one whole state of it, and
\* is not older than the state when the reader was called.
SawWholeState(t) ==
  /\ th[t].torn \cap BufferFields = {}
  /\ \E v \in committed : \A f \in DOMAIN th[t].obs \cap BufferFields : th[t].obs[f] = v[f]
  /\ \A f \in DOMAIN th[t].obs \cap BufferFields : th[t].obs[f] >= th[t].start[f]

\* C24: a reader of the buffer that ran while a mutator ran saw the state
\* before the edit or the state after it, never a part of the edit, and a
\* reader called after an edit returned saw that edit.
C24_NoPartialEdit ==
  \A t \in Threads : ReaderDone(t) /\ Quiet => SawWholeState(t)

\* The part that holds: GetTextRange, which takes the buffer's lock.
C24_LockedReader ==
  \A t \in Threads :
    ReaderDone(t) /\ Quiet /\ th[t].prog = "BufferGetTextRange" => SawWholeState(t)

====
